---- MODULE Spec2Model ----
(***************************************************************************)
(* Model of the FID-remapping ("FID hack") machinery of the FileGDB layer  *)
(* (ogr/ogrsf_frmts/filegdb/FGdbLayer.cpp):                                *)
(*   - the two remap maps kept by ICreateFeature / DeleteFeature,          *)
(*   - EditGDBTablX, the rewriter of the row-offset table (.gdbtablx),     *)
(*   - EditATXOrSPX, the in-place editor of .atx/.spx index files,         *)
(*   - EditIndexesForFIDHack, which drives both and swaps the files.       *)
(*                                                                         *)
(* Specifications:                                                         *)
(*   Spec       the layer: CreateFeature / DeleteFeature on one table      *)
(*   SpecTablX  EditGDBTablX, one action per iteration of its row loop     *)
(*   SpecATX    EditATXOrSPX on one index file (and a second pass)         *)
(*   SpecHack   EditIndexesForFIDHack, step by step                        *)
(***************************************************************************)
EXTENDS Integers, Sequences, FiniteSets, TLC

VARIABLES
    m_oMapOGRFIDToFGDBFID,  \* external (OGR) FID -> internal (FGDB) FID
    m_oMapFGDBFIDToOGRFID,  \* internal (FGDB) FID -> external (OGR) FID
    table,                  \* m_pTable, the SDK table: [rows, nextOID, open]
    m_nResyncThreshold,     \* FGDB_RESYNC_THRESHOLD as the constructor read it
    lastCall,               \* the last layer call: [op, fid, ret, ...]
    bDisableSparsePages,    \* FILEGDB_DISABLE_SPARSE_PAGES
    fs,                     \* the files: [gdbtablx, new, tmp, index]
    orig,                   \* fs as it was before the resync started
    tx,                     \* EditGDBTablX: its locals and position
    ax,                     \* EditATXOrSPX: outcome of the calls made so far
    hk                      \* EditIndexesForFIDHack: its locals and position

vars == <<m_oMapOGRFIDToFGDBFID, m_oMapFGDBFIDToOGRFID, table,
          m_nResyncThreshold, lastCall, bDisableSparsePages, fs, orig, tx, ax,
          hk>>

layerVars == <<m_oMapOGRFIDToFGDBFID, m_oMapFGDBFIDToOGRFID, table,
               m_nResyncThreshold, lastCall>>
resyncVars == <<m_nResyncThreshold, bDisableSparsePages, fs, orig, tx, ax, hk>>

(***************************************************************************)
(* Generic helpers                                                         *)
(***************************************************************************)
EmptyMap == <<>>

SetMax(S) == CHOOSE x \in S : \A y \in S : y <= x

SetMin(S) == CHOOSE x \in S : \A y \in S : x <= y

MAX(a, b) == IF a > b THEN a ELSE b

\* std::map::erase(key)
MapErase(m, k) == [x \in DOMAIN m \ {k} |-> m[x]]

\* std::map operator[] assignment
MapPut(m, k, v) ==
    IF k \in DOMAIN m THEN [m EXCEPT ![k] = v] ELSE (k :> v) @@ m

INT_MAX == 2147483647

\* A GIntBig (64-bit) value v is the record [hi, lo] with v = hi * 2^32 + lo
\* and lo in the int range, so that the values of an int have hi = 0.
GIntBig(hi, lo) == [hi |-> hi, lo |-> lo]

\* (int)v
CastInt(v) == v.lo

\* v < k and v == k for an int k
I64Less(v, k) == v.hi < 0 \/ (v.hi = 0 /\ v.lo < k)

I64Equal(v, k) == v.hi = 0 /\ v.lo = k

\* CPL_INT64_FITS_ON_INT32(x): (GIntBig)(int)x == x
CPL_INT64_FITS_ON_INT32(v) == I64Equal(v, CastInt(v))

(***************************************************************************)
(* The layer: ICreateFeature, DeleteFeature, ResyncIDs                     *)
(***************************************************************************)
OGRERR_NONE == "OGRERR_NONE"
OGRERR_FAILURE == "OGRERR_FAILURE"
OGRERR_NON_EXISTING_FEATURE == "OGRERR_NON_EXISTING_FEATURE"

\* Bounds of the layer model
MaxUserFID == 3
MaxOID == 4
ResyncThreshold == 2

\* FIDs a caller passes: unset (-1), invalid ones, and small positive ones
FIDInputs == {GIntBig(0, k) : k \in {-2, -1, 0} \cup (1 .. MaxUserFID)}
             \cup {GIntBig(1, 1), GIntBig(-1, 2)}

\* GetRow(): the row with this OID exists in the table
GetRow(tbl, nFID) == IF nFID \in tbl.rows THEN OGRERR_NONE
                     ELSE OGRERR_NON_EXISTING_FEATURE

\* m_pTable->Insert() followed by Row::GetOID(): the SDK hands out the next
\* object id of its sequence
TableInsert(tbl) == [tbl EXCEPT !.rows = @ \cup {tbl.nextOID},
                                !.nextOID = @ + 1]

TableDelete(tbl, oid) == [tbl EXCEPT !.rows = @ \ {oid}]

\* m_pDS->CloseInternal() returned TRUE and m_pDS->ReOpen() ran: the
\* datasource was closed (which rewrites .gdbtablx and the indexes) and
\* reopened; every relocated row is then stored at its external identifier
\* and both maps are empty.
CloseAndReOpen(st) ==
    LET ext(r) == IF r \in DOMAIN st.f2o THEN st.f2o[r] ELSE r
        newRows == {ext(r) : r \in st.tbl.rows}
    IN  [o2f |-> EmptyMap, f2o |-> EmptyMap,
         tbl |-> [rows |-> newRows,
                  nextOID |-> MAX(st.tbl.nextOID, SetMax(DOMAIN st.o2f) + 1),
                  open |-> TRUE],
         resync |-> "done"]

\* Line 372, m_oMapFGDBFIDToOGRFID[nFID] on the leaf entries of the rows
\* nFIDs: operator[] adds the pair (nFID, 0) for every key the map lacks
ZeroEntries(f2o, nFIDs) == [n \in nFIDs \ DOMAIN f2o |-> 0] @@ f2o

\* m_pDS->CloseInternal() returned FALSE: the layers were closed
\* (CloseGDBObjects, m_pTable = nullptr), the repair failed and the
\* datasource is not reopened; the maps are cleared on a successful resync
\* only. visited: the rows whose index entries EditATXOrSPX looked up
\* before the repair failed.
CloseFailed(st, visited) ==
    [o2f |-> st.o2f, f2o |-> ZeroEntries(st.f2o, visited \cap st.tbl.rows),
     tbl |-> [st.tbl EXCEPT !.open = FALSE], resync |-> "failed"]

\* A ResyncIDs whose test of the map is inverted
ResyncIDsWhenEmpty(st, failClose, visited) ==
    IF DOMAIN st.o2f # {}
    THEN [o2f |-> st.o2f, f2o |-> st.f2o, tbl |-> st.tbl, resync |-> "done"]
    ELSE [o2f |-> st.o2f, f2o |-> st.f2o, tbl |-> st.tbl, resync |-> "empty"]

\* void FGdbLayer::ResyncIDs(), on the layer state st = [o2f, f2o, tbl].
\* failClose: CloseInternal() returns FALSE, after the index entries of the
\* rows visited were looked up. resync tells what it did.
ResyncIDs(st, failClose, visited) ==
    IF DOMAIN st.o2f = {}
    THEN [o2f |-> st.o2f, f2o |-> st.f2o, tbl |-> st.tbl, resync |-> "empty"]
    ELSE IF failClose THEN CloseFailed(st, visited)
    ELSE CloseAndReOpen(st)

\* A loop that keeps the OID the SDK assigned first
AvoidCollisionNever(o2f, tbl, oid, failDelete, failInsert) ==
    [ok |-> TRUE, tbl |-> tbl, oid |-> oid]

\* The loop of ICreateFeature that deletes and inserts the row again while
\* the OID the SDK assigned is a user-set FID. failDelete / failInsert: the
\* SDK call of the first round fails.
RECURSIVE AvoidCollision(_, _, _, _, _)
AvoidCollision(o2f, tbl, oid, failDelete, failInsert) ==
    IF oid \notin DOMAIN o2f THEN [ok |-> TRUE, tbl |-> tbl, oid |-> oid]
    ELSE IF failDelete THEN [ok |-> FALSE, tbl |-> tbl, oid |-> oid]
    ELSE IF failInsert
         THEN [ok |-> FALSE, tbl |-> TableDelete(tbl, oid), oid |-> oid]
    ELSE AvoidCollision(o2f, TableInsert(TableDelete(tbl, oid)),
                        tbl.nextOID, FALSE, FALSE)

\* A test of the threshold that comes one pair late
ResyncDueLate(o2f, nResyncThreshold) ==
    Cardinality(DOMAIN o2f) = nResyncThreshold + 1

\* Line 1165: (int)m_oMapOGRFIDToFGDBFID.size() == m_nResyncThreshold
ResyncDue(o2f, nResyncThreshold) ==
    Cardinality(DOMAIN o2f) = nResyncThreshold

\* OGRErr FGdbLayer::ICreateFeature(OGRFeature*), for a feature whose FID is
\* nFID64 (-1: unset). Returns the layer state, the result and the FID the
\* feature has on return.
ICreateFeature(o2f, f2o, tbl, nResyncThreshold, nFID64, failInsert, failDelete, failReinsert, failClose, visited) ==
    LET nFID == CastInt(nFID64)
        same == [o2f |-> o2f, f2o |-> f2o, tbl |-> tbl,
                 ret |-> OGRERR_FAILURE, fid |-> nFID, resync |-> "none"]
    IN
    IF ~tbl.open THEN same
    ELSE IF I64Less(nFID64, -1) \/ I64Equal(nFID64, 0)
       \/ ~CPL_INT64_FITS_ON_INT32(nFID64) THEN same
    ELSE IF nFID > 0 /\ nFID \in DOMAIN o2f THEN same
    ELSE IF nFID > 0 /\ nFID \notin DOMAIN f2o
                     /\ GetRow(tbl, nFID) = OGRERR_NONE THEN same
    ELSE
    LET s0 == IF nFID > 0 /\ ResyncDue(o2f, nResyncThreshold)
              THEN ResyncIDs([o2f |-> o2f, f2o |-> f2o, tbl |-> tbl],
                             failClose, visited)
              ELSE [o2f |-> o2f, f2o |-> f2o, tbl |-> tbl, resync |-> "none"]
    IN
    IF failInsert \/ ~s0.tbl.open
    THEN [o2f |-> s0.o2f, f2o |-> s0.f2o, tbl |-> s0.tbl,
          ret |-> OGRERR_FAILURE, fid |-> nFID, resync |-> s0.resync]
    ELSE
    LET oid == s0.tbl.nextOID
        t1 == TableInsert(s0.tbl)
    IN
    IF nFID < 0 THEN
        LET r == AvoidCollision(s0.o2f, t1, oid, failDelete, failReinsert)
        IN  [o2f |-> s0.o2f, f2o |-> s0.f2o, tbl |-> r.tbl,
             ret |-> IF r.ok THEN OGRERR_NONE ELSE OGRERR_FAILURE,
             fid |-> IF r.ok THEN r.oid ELSE nFID, resync |-> s0.resync]
    ELSE IF nFID # oid THEN
        [o2f |-> MapPut(s0.o2f, nFID, oid), f2o |-> MapPut(s0.f2o, oid, nFID),
         tbl |-> t1, ret |-> OGRERR_NONE, fid |-> nFID, resync |-> s0.resync]
    ELSE [o2f |-> s0.o2f, f2o |-> s0.f2o, tbl |-> t1, ret |-> OGRERR_NONE,
          fid |-> nFID, resync |-> s0.resync]

\* An erase that forgets the FGDB->OGR entry of the pair
EraseRemapOGROnly(o2f, f2o, nFID) ==
    [o2f |-> MapErase(o2f, nFID), f2o |-> f2o]

\* Lines 1577-1579: the pair of the OGR FID nFID leaves both maps
EraseRemap(o2f, f2o, nFID) ==
    [o2f |-> MapErase(o2f, nFID), f2o |-> MapErase(f2o, o2f[nFID])]

\* OGRErr FGdbLayer::DeleteFeature(GIntBig nFID)
DeleteFeature(o2f, f2o, tbl, nFID64, failGetRow, failDelete) ==
    LET nFID == CastInt(nFID64) IN
    IF ~tbl.open
    THEN [o2f |-> o2f, f2o |-> f2o, tbl |-> tbl, ret |-> OGRERR_FAILURE]
    ELSE IF ~CPL_INT64_FITS_ON_INT32(nFID64)
    THEN [o2f |-> o2f, f2o |-> f2o, tbl |-> tbl,
          ret |-> OGRERR_NON_EXISTING_FEATURE]
    ELSE IF nFID \notin DOMAIN o2f /\ nFID \in DOMAIN f2o
    THEN [o2f |-> o2f, f2o |-> f2o, tbl |-> tbl,
          ret |-> OGRERR_NON_EXISTING_FEATURE]
    ELSE
    LET mapped == nFID \in DOMAIN o2f
        nFID32 == IF mapped THEN o2f[nFID] ELSE nFID
        erased == IF mapped THEN EraseRemap(o2f, f2o, nFID)
                  ELSE [o2f |-> o2f, f2o |-> f2o]
        o2f1 == erased.o2f
        f2o1 == erased.f2o
    IN
    IF failGetRow
    THEN [o2f |-> o2f1, f2o |-> f2o1, tbl |-> tbl, ret |-> OGRERR_FAILURE]
    ELSE IF GetRow(tbl, nFID32) # OGRERR_NONE
    THEN [o2f |-> o2f1, f2o |-> f2o1, tbl |-> tbl,
          ret |-> GetRow(tbl, nFID32)]
    ELSE IF failDelete
    THEN [o2f |-> o2f1, f2o |-> f2o1, tbl |-> tbl, ret |-> OGRERR_FAILURE]
    ELSE [o2f |-> o2f1, f2o |-> f2o1, tbl |-> TableDelete(tbl, nFID32),
          ret |-> OGRERR_NONE]

\* The rows outside the FGDB->OGR map whose index entries a repair that
\* fails may have looked up
VisitedRows(tbl, f2o, failClose) ==
    IF failClose THEN SUBSET (tbl.rows \ DOMAIN f2o) ELSE {{}}

\* A path with no file
Absent == [exists |-> FALSE]

(***************************************************************************)
(* Index files (.atx / .spx) and EditATXOrSPX                              *)
(*                                                                         *)
(* A file is [nPos (its size), nSizeIndexedValue, nDepth (both from the    *)
(* trailer), pages]. A 4096-byte page is [w0, w1, w2, ids, vals]: the      *)
(* int32 words at bytes 0, 4 and 8, the int32 words from byte 12 on, and   *)
(* the indexed values. Read as a leaf, w0 is the next page, w1 the feature *)
(* count, ids[i + 1] the FID of entry i and vals[i + 1] its value; read as *)
(* an interior page, w1 + 1 is the number of sub-pages, w2 the first of    *)
(* them and ids[k] the (k + 1)-th.                                         *)
(***************************************************************************)
PageSize == 4096

TrailerSize == 22

MaxPagesAtThisValue == 100000

\* qsort(..., FGdbLayerSortATX): ascending
SortFIDs(seq) == SortSeq(seq, LAMBDA a, b : a < b)

\* The walk fails its next fallible I/O call when failAt numbers it
IOFails(w) == w.failAt = w.nIO + 1

IODone(w) == [w EXCEPT !.nIO = @ + 1]

\* VSIFReadL of a whole page succeeds when the page is in the file
PageInFile(w, nPage) == nPage >= 1 /\ nPage <= Len(w.pages)

\* A lookup that takes a FID the map does not hold as remapped to itself
MapIndexSelf(m, k) == IF k \in DOMAIN m THEN m ELSE MapPut(m, k, k)

\* m_oMapFGDBFIDToOGRFID[nFID]: std::map operator[] adds a zero entry for a
\* key it does not hold
MapIndex(m, k) == IF k \in DOMAIN m THEN m ELSE MapPut(m, k, 0)

\* Lines 405-449: the places of the FIDs of the run to sort, in order: of
\* the pages of anPagesAtThisValue from index j on. A place is [buf, page,
\* k]: word k of ids, in abyBuffer (buf) or in the page on disk.
RECURSIVE RunPlaces(_, _, _, _)
RunPlaces(w, pg, j, nFeaturesToSortLastPage) ==
    IF j > Len(w.anPagesAtThisValue) THEN <<>>
    ELSE
    LET nPage == w.anPagesAtThisValue[j]
        nFeaturesPrevPage == w.pages[nPage].w1
        here == IF j = 1
                THEN [k \in 1 .. (nFeaturesPrevPage - w.nFirstIndexAtThisValue)
                      |-> [buf |-> FALSE, page |-> nPage,
                           k |-> w.nFirstIndexAtThisValue + k]]
                ELSE IF j = Len(w.anPagesAtThisValue) /\ nPage = pg.nThisPage
                THEN [k \in 1 .. nFeaturesToSortLastPage
                      |-> [buf |-> TRUE, page |-> nPage, k |-> k]]
                ELSE [k \in 1 .. nFeaturesPrevPage
                      |-> [buf |-> FALSE, page |-> nPage, k |-> k]]
    IN  here \o RunPlaces(w, pg, j + 1, nFeaturesToSortLastPage)

\* Lines 453-489: the sorted FIDs go back to the pages of the run on disk,
\* page by page from index j on (VSIFWriteL unchecked: a failing write is
\* not noticed), the part of this page into abyBuffer
RECURSIVE WriteRunBack(_, _, _, _, _)
WriteRunBack(w, pg, j, places, sorted) ==
    IF j > Len(w.anPagesAtThisValue) THEN [w |-> w, pg |-> pg]
    ELSE
    LET nPage == w.anPagesAtThisValue[j]
        mine(buf) == {n \in 1 .. Len(places) :
                         places[n].page = nPage /\ places[n].buf = buf}
        put(ids, buf) ==
            [k \in 1 .. Len(ids) |->
                IF \E n \in mine(buf) : places[n].k = k
                THEN sorted[CHOOSE n \in mine(buf) : places[n].k = k]
                ELSE ids[k]]
        inBuffer == j > 1 /\ j = Len(w.anPagesAtThisValue)
                    /\ nPage = pg.nThisPage
    IN
    IF inBuffer
    THEN WriteRunBack(w, [pg EXCEPT !.ids = put(@, TRUE)], j + 1, places,
                      sorted)
    ELSE IF mine(FALSE) = {}
    THEN WriteRunBack(w, pg, j + 1, places, sorted)
    ELSE IF IOFails(w)
    THEN WriteRunBack(IODone(w), pg, j + 1, places, sorted)
    ELSE WriteRunBack(
             [IODone(w) EXCEPT !.pages[nPage].ids = put(@, FALSE),
                               !.written = @ \cup {nPage}],
             pg, j + 1, places, sorted)

\* Lines 388-491: the run of equal values that ends before entry i (or with
\* it, at the end of the last page) is sorted by FID. resorted records the
\* pages of the runs sorted.
SortThisValue(wIn, pg, i, bNewVal) ==
    LET atEnd == ~bNewVal /\ i = pg.nFeatures - 1 /\ pg.nNextPageID = 0
        w == [wIn EXCEPT !.resorted =
                 @ \cup {wIn.anPagesAtThisValue[j] :
                            j \in 1 .. Len(wIn.anPagesAtThisValue)}]
    IN
    IF w.anPagesAtThisValue[1] = pg.nThisPage
    THEN LET nFeaturesToSortThisPage ==
                 (i - w.nFirstIndexAtThisValue) + (IF atEnd THEN 1 ELSE 0)
             from == w.nFirstIndexAtThisValue + 1
             sorted == SortFIDs(SubSeq(pg.ids, from,
                                       from + nFeaturesToSortThisPage - 1))
         IN  [w |-> w,
              pg |-> [pg EXCEPT
                        !.bRewritePage = TRUE,
                        !.ids = [k \in 1 .. Len(pg.ids) |->
                                    IF k >= from
                                       /\ k < from + nFeaturesToSortThisPage
                                    THEN sorted[k - from + 1]
                                    ELSE pg.ids[k]]]]
    ELSE LET nFeaturesToSortLastPage == i + (IF atEnd THEN 1 ELSE 0)
             places == RunPlaces(w, pg, 1, nFeaturesToSortLastPage)
             value(pl) == IF pl.buf THEN pg.ids[pl.k]
                          ELSE w.pages[pl.page].ids[pl.k]
             sorted == SortFIDs([n \in 1 .. Len(places) |-> value(places[n])])
             last == w.anPagesAtThisValue[Len(w.anPagesAtThisValue)]
             pg1 == IF Len(w.anPagesAtThisValue) > 1 /\ last = pg.nThisPage
                    THEN [pg EXCEPT !.bRewritePage = TRUE]
                    ELSE pg
         IN  WriteRunBack(w, pg1, 1, places, sorted)

\* Lines 363-383: entry i of the leaf page is read and, when its FID is
\* remapped, replaced in abyBuffer. A step of the loop is [w, pg, bNewVal,
\* nOGRFID, ret].
RemapEntry(w, pg, i) ==
    LET nFID == pg.ids[i + 1]
        f2o == MapIndex(w.f2o, nFID)
        nOGRFID == f2o[nFID]
        isLast == i = pg.nFeatures - 1 /\ pg.nNextPageID = 0
    IN  [w |-> [w EXCEPT !.f2o = f2o,
                         !.bSortThisValue =
                             IF nOGRFID # 0 /\ w.bIndexedValueIsValid /\ isLast
                             THEN TRUE ELSE @],
         pg |-> IF nOGRFID # 0
                THEN [pg EXCEPT !.ids[i + 1] = nOGRFID, !.bRewritePage = TRUE]
                ELSE pg,
         bNewVal |-> ~w.bIndexedValueIsValid
                     \/ w.abyLastIndexedValue # pg.vals[i + 1],
         nOGRFID |-> nOGRFID,
         ret |-> TRUE]

\* The step st with the walk state and the page of r
WithSorted(st, r) == [st EXCEPT !.w = r.w, !.pg = r.pg]

\* Lines 388-491: the run is sorted when it has a remapped FID and ends here
SortIfDue(st, i) ==
    LET isLast == i = st.pg.nFeatures - 1 /\ st.pg.nNextPageID = 0 IN
    IF st.w.bSortThisValue /\ (st.bNewVal \/ isLast)
    THEN WithSorted(st, SortThisValue(st.w, st.pg, i, st.bNewVal))
    ELSE st

\* Lines 493-521: the run the entry belongs to is recorded. The loop
\* returns FALSE on a run of more than 100000 pages.
TrackRun(st, i) ==
    LET w == st.w IN
    IF st.bNewVal
    THEN [st EXCEPT !.w = [w EXCEPT
                             !.nFirstIndexAtThisValue = i,
                             !.anPagesAtThisValue = <<st.pg.nThisPage>>,
                             !.abyLastIndexedValue = st.pg.vals[i + 1],
                             !.bSortThisValue = st.nOGRFID # 0,
                             !.bIndexedValueIsValid = TRUE]]
    ELSE IF i = 0 /\ Len(w.anPagesAtThisValue) > MaxPagesAtThisValue
    THEN [st EXCEPT !.w = [w EXCEPT !.bInvalidateIndex = TRUE],
                    !.ret = FALSE]
    ELSE [st EXCEPT !.w = [w EXCEPT
                             !.anPagesAtThisValue =
                                 IF i = 0 THEN Append(@, st.pg.nThisPage)
                                 ELSE @,
                             !.bSortThisValue =
                                 IF st.nOGRFID # 0 THEN TRUE ELSE @,
                             !.bIndexedValueIsValid = TRUE]]

\* Lines 361-522: the entries of a leaf page from entry i on. ret: FALSE
\* when the loop returned FALSE.
RECURSIVE LeafEntries(_, _, _), LeafEntriesAfter(_, _)
LeafEntries(w, pg, i) ==
    IF i >= pg.nFeatures THEN [w |-> w, pg |-> pg, ret |-> TRUE]
    ELSE LeafEntriesAfter(TrackRun(SortIfDue(RemapEntry(w, pg, i), i), i), i)

LeafEntriesAfter(st, i) ==
    IF ~st.ret THEN [w |-> st.w, pg |-> st.pg, ret |-> FALSE]
    ELSE LeafEntries(st.w, st.pg, i + 1)

\* A write-back of every page visited, changed or not
WriteLeafBackAlways(r, nThisPage) ==
    IF ~r.ret THEN [w |-> r.w, ret |-> FALSE]
    ELSE [w |-> [IODone(r.w) EXCEPT !.pages[nThisPage].ids = r.pg.ids,
                                    !.written = @ \cup {nThisPage},
                                    !.nLastPageVisited = nThisPage],
          ret |-> TRUE]

\* Lines 524-533: a page with a changed FID is written back
WriteLeafBack(r, nThisPage) ==
    IF ~r.ret THEN [w |-> r.w, ret |-> FALSE]
    ELSE IF r.pg.bRewritePage /\ IOFails(r.w)
    THEN [w |-> IODone(r.w), ret |-> FALSE]
    ELSE IF r.pg.bRewritePage
    THEN [w |-> [IODone(r.w) EXCEPT !.pages[nThisPage].ids = r.pg.ids,
                                    !.written = @ \cup {nThisPage},
                                    !.nLastPageVisited = nThisPage],
          ret |-> TRUE]
    ELSE [w |-> [r.w EXCEPT !.nLastPageVisited = nThisPage], ret |-> TRUE]

\* Lines 339-534: a page that directly references features
EditLeafPage(w, nThisPage, nSizeIndexedValue) ==
    IF nThisPage = w.nLastPageVisited THEN [w |-> w, ret |-> TRUE]
    ELSE IF IOFails(w) \/ ~PageInFile(w, nThisPage)
    THEN [w |-> IODone(w), ret |-> FALSE]
    ELSE
    LET page == w.pages[nThisPage]
        nMaxPerPages == (PageSize - 12) \div (4 + nSizeIndexedValue)
        pg == [nThisPage |-> nThisPage, nNextPageID |-> page.w0,
               nFeatures |-> page.w1, ids |-> page.ids, vals |-> page.vals,
               bRewritePage |-> FALSE]
    IN
    IF pg.nFeatures > nMaxPerPages THEN [w |-> IODone(w), ret |-> FALSE]
    ELSE WriteLeafBack(LeafEntries(IODone(w), pg, 0), nThisPage)

\* int FGdbLayer::EditATXOrSPX(VSILFILE*, int nThisPage, ..., int nDepth, ...)
\* and, lines 546-561, its loop over the sub-pages from the i-th on
RECURSIVE EditATXOrSPXPage(_, _, _, _), EditSubPages(_, _, _, _, _, _),
          EditSubPagesAfter(_, _, _, _, _, _)
EditATXOrSPXPage(w, nThisPage, nDepth, nSizeIndexedValue) ==
    IF nDepth = 1 THEN EditLeafPage(w, nThisPage, nSizeIndexedValue)
    ELSE IF IOFails(w) \/ ~PageInFile(w, nThisPage)
    THEN [w |-> IODone(w), ret |-> FALSE]
    ELSE
    LET nSubPages == w.pages[nThisPage].w1 + 1 IN
    IF nSubPages > (PageSize - 8) \div 4 THEN [w |-> IODone(w), ret |-> FALSE]
    ELSE EditSubPages(IODone(w), w.pages[nThisPage], nSubPages, 0, nDepth,
                      nSizeIndexedValue)

EditSubPages(w, abyBuffer, nSubPages, i, nDepth, nSizeIndexedValue) ==
    IF i >= nSubPages THEN [w |-> w, ret |-> TRUE]
    ELSE
    LET nSubPageID == IF i = 0 THEN abyBuffer.w2
                      ELSE IF i <= Len(abyBuffer.ids) THEN abyBuffer.ids[i]
                      ELSE 0
    IN
    IF nSubPageID < 1 THEN [w |-> w, ret |-> FALSE]
    ELSE
    EditSubPagesAfter(EditATXOrSPXPage(w, nSubPageID, nDepth - 1,
                                       nSizeIndexedValue),
                      abyBuffer, nSubPages, i, nDepth, nSizeIndexedValue)

EditSubPagesAfter(r, abyBuffer, nSubPages, i, nDepth, nSizeIndexedValue) ==
    IF ~r.ret THEN r
    ELSE EditSubPages(r.w, abyBuffer, nSubPages, i + 1, nDepth,
                      nSizeIndexedValue)

\* Lines 305-312: the file is closed, and unlinked when found invalid
EditedIndex(file, r) ==
    [file |-> IF r.w.bInvalidateIndex THEN Absent
              ELSE [file EXCEPT !.pages = r.w.pages],
     f2o |-> r.w.f2o, written |-> r.w.written, resorted |-> r.w.resorted,
     bRet |-> r.ret,
     bInvalidateIndex |-> r.w.bInvalidateIndex, nIO |-> r.w.nIO]

\* A repair that walks the pages whatever size of the indexed values the
\* trailer gives
EditATXOrSPXAnySize(file, f2o, failOpen, failAt) ==
    LET w0 == [pages |-> file.pages, f2o |-> f2o,
               bIndexedValueIsValid |-> FALSE, abyLastIndexedValue |-> 0,
               nFirstIndexAtThisValue |-> -1, anPagesAtThisValue |-> <<>>,
               bSortThisValue |-> FALSE, nLastPageVisited |-> 0,
               bInvalidateIndex |-> FALSE, nIO |-> 2, failAt |-> failAt,
               written |-> {}, resorted |-> {}]
    IN  EditedIndex(file, EditATXOrSPXPage(w0, 1, file.nDepth,
                                           file.nSizeIndexedValue))

\* int FGdbLayer::EditATXOrSPX(const CPLString &osIndex): the file, the
\* FGDB->OGR map and the pages written afterwards, and the value returned.
\* failOpen: VSIFOpenL fails; failAt: the fallible read or write of that
\* number fails (0: none; 1 and 2 are the two reads of the trailer); nIO:
\* the number of such calls made.
EditATXOrSPX(file, f2o, failOpen, failAt) ==
    LET w0 == [pages |-> file.pages, f2o |-> f2o,
               bIndexedValueIsValid |-> FALSE, abyLastIndexedValue |-> 0,
               nFirstIndexAtThisValue |-> -1, anPagesAtThisValue |-> <<>>,
               bSortThisValue |-> FALSE, nLastPageVisited |-> 0,
               bInvalidateIndex |-> FALSE, nIO |-> 2, failAt |-> failAt,
               written |-> {}, resorted |-> {}]
        untouched(nIO) == [file |-> file, f2o |-> f2o, written |-> {},
                           resorted |-> {},
                           bRet |-> FALSE, bInvalidateIndex |-> FALSE,
                           nIO |-> nIO]
    IN
    IF failOpen \/ ~file.exists THEN untouched(0)
    ELSE IF ~(file.nPos > TrailerSize) THEN untouched(0)
    ELSE IF failAt = 1 \/ ~(file.nSizeIndexedValue > 0) THEN untouched(1)
    ELSE IF failAt = 2 THEN untouched(2)
    ELSE
    EditedIndex(file, EditATXOrSPXPage(w0, 1, file.nDepth,
                                       file.nSizeIndexedValue))

(***************************************************************************)
(* The row-offset table (.gdbtablx) and EditGDBTablX                       *)
(*                                                                         *)
(* A file is [n1024Blocks, nMaxFID, nRecordSize] (header), blocks (the     *)
(* 1024-record blocks physically present, in file order), and the trailer  *)
(* [nBitmapInt32Words, n1024BlocksTotal, nNonEmptyPages] followed by the   *)
(* block bitmap. A block is the function from the slots (0..1023) holding  *)
(* a non-zero offset record to that record; every other slot is zero. A    *)
(* bitmap is the set of its set bits.                                      *)
(***************************************************************************)
BlockRows == 1024

TEST_BIT(ar, bit) == bit \in ar

SET_BIT(ar, bit) == ar \cup {bit}

BIT_ARRAY_SIZE_IN_BYTES(bitsize) == (bitsize + 7) \div 8

EmptyPage == <<>>

\* VSIFReadL of the offset record at physical row iRow (0-based) of the
\* file: not ok when the file ends before it
PhysRecord(file, iRow) ==
    LET b == iRow \div BlockRows + 1
        slot == iRow % BlockRows
    IN  IF b > Len(file.blocks) THEN [ok |-> FALSE, rec |-> 0]
        ELSE IF slot \in DOMAIN file.blocks[b]
        THEN [ok |-> TRUE, rec |-> file.blocks[b][slot]]
        ELSE [ok |-> TRUE, rec |-> 0]

\* Number of set bits of the bitmap in [from, to)
CountBits(ar, from, to) == Cardinality({j \in from .. (to - 1) : TEST_BIT(ar, j)})

\* Lines 797-852: fetch the offset record of nSrcFID from the input file
\* into abyBuffer, through the input bitmap when there is one. A read past
\* the end of the file, or one that fails (failRead), leaves abyBuffer as
\* it was: the result of VSIFReadL is not looked at. "copy" says whether
\* the code reaches the memcmp/memcpy into the page, bIOError whether a
\* VSIFReadL or VSIFWriteL of the call has failed.
FetchRecord(s, file, nSrcFID, failRead) ==
    IF s.bBlockMap THEN
        LET iBlock == (nSrcFID - 1) \div BlockRows IN
        IF TEST_BIT(s.pabyBlockMap, iBlock) THEN
            LET nCountBlocksBefore ==
                    IF iBlock >= s.nCountBlocksBeforeIBlockIdx
                    THEN s.nCountBlocksBeforeIBlockValue
                         + CountBits(s.pabyBlockMap,
                                     s.nCountBlocksBeforeIBlockIdx, iBlock)
                    ELSE CountBits(s.pabyBlockMap, 0, iBlock)
                iCorrectedRow == nCountBlocksBefore * BlockRows
                                 + ((nSrcFID - 1) % BlockRows)
                rd == PhysRecord(file, iCorrectedRow)
            IN  [s EXCEPT !.nCountBlocksBeforeIBlockIdx = iBlock,
                          !.nCountBlocksBeforeIBlockValue = nCountBlocksBefore,
                          !.abyBuffer = IF rd.ok /\ ~failRead THEN rd.rec
                                        ELSE @,
                          !.bIOError = @ \/ failRead \/ ~rd.ok,
                          !.copy = TRUE]
        ELSE [s EXCEPT !.copy = FALSE]
    ELSE LET rd == PhysRecord(file, nSrcFID - 1)
         IN  [s EXCEPT !.abyBuffer = IF rd.ok /\ ~failRead THEN rd.rec ELSE @,
                       !.bIOError = @ \/ failRead \/ ~rd.ok,
                       !.copy = TRUE]

\* Lines 830-837 / 844-851: a non-zero record is copied into the page at
\* nOffsetInPage, the bytes since the last written record being zeroed
CopyRecord(s, nRecordSize) ==
    IF s.copy /\ s.abyBuffer # 0
    THEN [s EXCEPT !.pabyPage = MapPut(@, s.nOffsetInPage \div nRecordSize,
                                       s.abyBuffer),
                   !.nLastWrittenOffset = s.nOffsetInPage + nRecordSize]
    ELSE s

\* std::map iterator increment: the key after k, -1 at end()
NextKey(m, k) ==
    IF \E x \in DOMAIN m : x > k THEN SetMin({x \in DOMAIN m : x > k}) ELSE -1

\* A loop that also steps over the key equal to i
RECURSIVE AdvanceIterPast(_, _, _)
AdvanceIterPast(m, i, nNext) ==
    IF nNext > 0 /\ i >= nNext THEN AdvanceIterPast(m, i, NextKey(m, nNext))
    ELSE nNext

\* One of the two while loops of UpdateNextOGRFIDAndFGDBFID
RECURSIVE AdvanceIter(_, _, _)
AdvanceIter(m, i, nNext) ==
    IF nNext > 0 /\ i > nNext THEN AdvanceIter(m, i, NextKey(m, nNext))
    ELSE nNext

UpdateNextOGRFIDAndFGDBFID(s, i, o2f, f2o) ==
    [s EXCEPT !.nNextOGRFID = AdvanceIter(o2f, i, s.nNextOGRFID),
              !.nNextFGDBFID = AdvanceIter(f2o, i, s.nNextFGDBFID)]

\* No trailing compaction at all
TrailingKept(f2o, i, nMaxOGRFID) == 0

\* A trailing compaction that goes on below the largest OGR FID
RECURSIVE TrailingRelocatedAny(_, _, _)
TrailingRelocatedAny(f2o, i, nMaxOGRFID) ==
    IF i \in DOMAIN f2o
    THEN 1 + TrailingRelocatedAny(f2o, i - 1, nMaxOGRFID)
    ELSE 0

\* Lines 654-663: how many trailing input FIDs, from i down to above
\* nMaxOGRFID, are all keys of the FGDB->OGR map
RECURSIVE TrailingRelocated(_, _, _)
TrailingRelocated(f2o, i, nMaxOGRFID) ==
    IF i > nMaxOGRFID /\ i \in DOMAIN f2o
    THEN 1 + TrailingRelocated(f2o, i - 1, nMaxOGRFID)
    ELSE 0

\* A page counted as non-empty whose bit is not set
MarkPageCountOnly(s, iBlock) == [s EXCEPT !.nNonEmptyPages = @ + 1]

\* Lines 725-737 and 855-862: the page is accounted as non-empty in the
\* output bitmap
MarkPage(s, iBlock) ==
    [s EXCEPT !.pabyBlockMapOut = SET_BIT(@, iBlock),
              !.nNonEmptyPages = @ + 1]

\* A write of a page that reaches no file
WriteBlockNowhere(file, page) == file

\* VSIFWriteL(pabyPage, 1024 * nRecordSize, 1, fpNew)
WriteBlock(file, page) == [file EXCEPT !.blocks = Append(@, page)]

\* What the build makes of begin()->first and begin()->second of an empty
\* std::map (lines 709-712 dereference end(), which is undefined): the
\* process dies, or some value is read. libstdc++ reads 0 as the key.
BeginOfEmptyMap ==
    {[crash |-> TRUE, first |-> 0, second |-> 0]}
    \cup {[crash |-> FALSE, first |-> v, second |-> w] :
              v \in {-1, 0, 1, 2}, w \in {1, 2}}

\* The maps are not empty: begin() is an element
BeginDefined == [crash |-> FALSE, first |-> 0, second |-> 0]

\* oIter = m.begin(); oIter->first
BeginFirst(m, ub) == IF DOMAIN m = {} THEN ub.first ELSE SetMin(DOMAIN m)

\* oIter->second for the iterator whose key was read as k
IterSecond(m, k, ub) == IF k \in DOMAIN m THEN m[k] ELSE ub.second

\* Lines 634-717, after both files were opened: the locals at loop entry.
\* ub: what dereferencing begin() gave if the maps are empty.
TablXLocals(in, o2f, f2o, ub) ==
    LET nInMaxFIDOri == in.nMaxFID
        nMaxOGRFID == IF DOMAIN o2f = {} THEN 0 ELSE SetMax(DOMAIN o2f)
        k == TrailingRelocated(f2o, nInMaxFIDOri, nMaxOGRFID)
        nOutMaxFID == MAX(nInMaxFIDOri, nMaxOGRFID) - k
        n1024BlocksOut == (nOutMaxFID + (BlockRows - 1)) \div BlockRows
    IN  [pc |-> "loop",
         nInMaxFID |-> nInMaxFIDOri - k,
         nOutMaxFID |-> nOutMaxFID,
         n1024BlocksOut |-> n1024BlocksOut,
         nSizeInBytesOut |->
             ((BIT_ARRAY_SIZE_IN_BYTES(n1024BlocksOut) + 127) \div 128) * 128,
         bBlockMap |-> in.nBitmapInt32Words # 0,
         pabyBlockMap |-> IF in.nBitmapInt32Words # 0 THEN in.blockMap ELSE {},
         pabyBlockMapOut |-> {},
         pabyPage |-> EmptyPage,
         abyBuffer |-> IF in.nBitmapInt32Words = 0 /\ in.nRecordSize = 4
                       THEN 0 ELSE -1,
         copy |-> FALSE,
         nNonEmptyPages |-> 0,
         nOffsetInPage |-> 0,
         nLastWrittenOffset |-> 0,
         nNextOGRFID |-> BeginFirst(o2f, ub),
         nNextFGDBFID |-> BeginFirst(f2o, ub),
         ub |-> ub,
         nCountBlocksBeforeIBlockIdx |-> 0,
         nCountBlocksBeforeIBlockValue |-> 0,
         bRet |-> TRUE,
         bIOError |-> FALSE,
         skips |-> {},
         broke |-> FALSE,
         i |-> 0,
         iUnsigned |-> 1]

\* Lines 668-676: the output file once its header is written
TablXNewHeader(in, s) ==
    [exists |-> TRUE,
     n1024Blocks |-> s.n1024BlocksOut, nMaxFID |-> s.nOutMaxFID,
     nRecordSize |-> in.nRecordSize, blocks |-> <<>>, hasTrailer |-> FALSE,
     nBitmapInt32Words |-> 0, n1024BlocksTotal |-> 0, nNonEmptyPages |-> 0,
     blockMap |-> {}, nBitmapBytes |-> 0]

\* Lines 740-741: past the input rows, with the next OGR FID more than a
\* block away
SkipToNextOGRFID(s, i, bDisable) ==
    /\ ~bDisable
    /\ i > s.nInMaxFID
    /\ s.nNextOGRFID > 0
    /\ i < s.nNextOGRFID - BlockRows

\* Lines 748-750: the input has a bitmap and the block of row i is empty
EmptyInputPage(s, i, bDisable) ==
    /\ ~bDisable
    /\ s.bBlockMap
    /\ i <= s.nInMaxFID
    /\ ~TEST_BIT(s.pabyBlockMap, (i - 1) \div BlockRows)

\* A test of the pending targets that forgets the OGR FIDs
NoTargetInPageFGDBOnly(s, i) ==
    s.nNextFGDBFID < 0 \/ i < s.nNextFGDBFID - BlockRows

\* Lines 757-758: neither the next OGR FID nor the next FGDB FID is within
\* the block that starts at row i
NoTargetInPage(s, i) ==
    /\ (s.nNextOGRFID < 0 \/ i < s.nNextOGRFID - BlockRows)
    /\ (s.nNextFGDBFID < 0 \/ i < s.nNextFGDBFID - BlockRows)

\* Lines 719-853: one iteration of the row loop, increment included.
\* failWrite: the VSIFWriteL of a full page fails; failRead: the VSIFReadL
\* of the record of the row fails. bSkipAhead: the two optimizations of
\* lines 739-768 are compiled in; skips records which of them were taken.
TablXIteration(s, in, out, o2f, f2o, bDisable, failWrite, failRead, bSkipAhead) ==
    LET nRecordSize == in.nRecordSize
        i0 == s.iUnsigned
        boundary == s.nOffsetInPage = BlockRows * nRecordSize
        doFlush == boundary /\ (s.nLastWrittenOffset > 0 \/ bDisable)
        s1 == IF doFlush THEN MarkPage(s, (i0 - 2) \div BlockRows) ELSE s
    IN
    IF doFlush /\ failWrite
    THEN [tx |-> [s1 EXCEPT !.bRet = FALSE, !.bIOError = TRUE,
                            !.pc = "done", !.i = i0],
          new |-> out]
    ELSE
    LET out1 == IF doFlush THEN WriteBlock(out, s.pabyPage) ELSE out
        s2 == IF boundary
              THEN [s1 EXCEPT !.nOffsetInPage = 0, !.nLastWrittenOffset = 0,
                              !.pabyPage = EmptyPage]
              ELSE s1
        skipToOGRFID == /\ boundary
                        /\ bSkipAhead
                        /\ SkipToNextOGRFID(s2, i0, bDisable)
        emptyInPage == /\ boundary
                       /\ bSkipAhead
                       /\ ~skipToOGRFID
                       /\ EmptyInputPage(s2, i0, bDisable)
        s3 == IF emptyInPage THEN UpdateNextOGRFIDAndFGDBFID(s2, i0, o2f, f2o)
              ELSE s2
        skipPage == emptyInPage /\ NoTargetInPage(s3, i0)
    IN
    IF skipPage /\ i0 > INT_MAX - BlockRows
    THEN [tx |-> [s3 EXCEPT !.broke = TRUE, !.i = i0], new |-> out1]
    ELSE IF skipPage
    THEN [tx |-> [s3 EXCEPT !.i = i0 + (BlockRows - 1),
                            !.iUnsigned = i0 + (BlockRows - 1) + 1,
                            !.nOffsetInPage = @ + (BlockRows - 1) * nRecordSize
                                              + nRecordSize,
                            !.skips = @ \cup {"page"}],
          new |-> out1]
    ELSE
    LET i == IF skipToOGRFID
             THEN ((s3.nNextOGRFID - 1) \div BlockRows) * BlockRows + 1
             ELSE i0
        s3b == IF skipToOGRFID THEN [s3 EXCEPT !.skips = @ \cup {"ogrfid"}]
               ELSE s3
        s4 == UpdateNextOGRFIDAndFGDBFID(s3b, i, o2f, f2o)
        s5 == IF i = s4.nNextOGRFID
              THEN CopyRecord(FetchRecord(s4, in,
                                          IterSecond(o2f, s4.nNextOGRFID,
                                                     s4.ub),
                                          failRead),
                              nRecordSize)
              ELSE IF i = s4.nNextFGDBFID \/ i > s4.nInMaxFID
              THEN s4
              ELSE CopyRecord(FetchRecord(s4, in, i, failRead), nRecordSize)
    IN  [tx |-> [s5 EXCEPT !.i = i, !.iUnsigned = i + 1,
                           !.nOffsetInPage = @ + nRecordSize],
         new |-> out1]

\* The row loop as the build has it
TablXLoopBody(s, in, out, o2f, f2o, bDisable, failWrite, failRead) ==
    TablXIteration(s, in, out, o2f, f2o, bDisable, failWrite, failRead, TRUE)

\* The row loop without lines 739-768: every row is visited, no I/O fails
PlainLoopBody(s, in, out, o2f, f2o, bDisable) ==
    TablXIteration(s, in, out, o2f, f2o, bDisable, FALSE, FALSE, FALSE)

\* Lines 855-916: the last page, the trailer and the bitmap.
\* failPage / failTrailer: that VSIFWriteL fails.
TablXEpilogue(s, out, bDisable, failPage, failTrailer) ==
    LET doFlush == s.nLastWrittenOffset > 0 \/ bDisable
        s1 == IF doFlush
              THEN MarkPage(s, (s.nOutMaxFID - 1) \div BlockRows)
              ELSE s
    IN
    IF doFlush /\ failPage
    THEN [tx |-> [s1 EXCEPT !.bRet = FALSE, !.bIOError = TRUE,
                            !.pc = "done"],
          new |-> out]
    ELSE
    LET out1 == IF doFlush THEN WriteBlock(out, s.pabyPage) ELSE out
        sparse == s1.nNonEmptyPages < s1.n1024BlocksOut
    IN
    IF failTrailer
    THEN [tx |-> [s1 EXCEPT !.bRet = FALSE, !.bIOError = TRUE,
                            !.pc = "done"],
          new |-> out1]
    ELSE [tx |-> [s1 EXCEPT !.pc = "done"],
          new |-> [out1 EXCEPT
                     !.hasTrailer = TRUE,
                     !.nBitmapInt32Words =
                         IF sparse THEN s1.nSizeInBytesOut \div 4 ELSE 0,
                     !.n1024BlocksTotal = s1.n1024BlocksOut,
                     !.nNonEmptyPages = s1.nNonEmptyPages,
                     !.blockMap = IF sparse THEN s1.pabyBlockMapOut ELSE {},
                     !.nBitmapBytes = IF sparse THEN s1.nSizeInBytesOut ELSE 0,
                     !.n1024Blocks = IF sparse THEN s1.nNonEmptyPages ELSE @]]

\* How a reader finds the offset record of a row: 0 beyond the maximum FID,
\* through the bitmap when the trailer announces one (lines 797-829)
ReadRow(file, nFID) ==
    IF nFID < 1 \/ nFID > file.nMaxFID THEN 0
    ELSE IF file.nBitmapInt32Words # 0 THEN
        LET iBlock == (nFID - 1) \div BlockRows IN
        IF TEST_BIT(file.blockMap, iBlock)
        THEN PhysRecord(file, CountBits(file.blockMap, 0, iBlock) * BlockRows
                              + ((nFID - 1) % BlockRows)).rec
        ELSE 0
    ELSE PhysRecord(file, nFID - 1).rec


\* The files and rewriter state are not touched by the layer calls
IdleResync ==
    /\ bDisableSparsePages = FALSE
    /\ fs = [gdbtablx |-> Absent, new |-> Absent, tmp |-> Absent,
             index |-> <<>>]
    /\ orig = fs
    /\ tx = [pc |-> "idle"]
    /\ ax = <<>>
    /\ hk = [pc |-> "idle"]

Init ==
    /\ m_oMapOGRFIDToFGDBFID = EmptyMap
    /\ m_oMapFGDBFIDToOGRFID = EmptyMap
    /\ table = [rows |-> {}, nextOID |-> 1,
                 open |-> TRUE]
    /\ m_nResyncThreshold \in 0 .. ResyncThreshold
    /\ lastCall = [op |-> "none", fid |-> GIntBig(0, -1), ret |-> OGRERR_NONE,
                   out |-> -1, mapped |-> FALSE, resync |-> "none"]
    /\ IdleResync

\* fail: the SDK call that fails during the call, if any
CreateFeature ==
    \E nFID \in FIDInputs,
       fail \in {"none", "insert", "delete", "reinsert", "close"} :
    \E visited \in VisitedRows(table, m_oMapFGDBFIDToOGRFID, fail = "close") :
        /\ table.nextOID <= MaxOID
        /\ LET r == ICreateFeature(m_oMapOGRFIDToFGDBFID,
                                   m_oMapFGDBFIDToOGRFID, table,
                                   m_nResyncThreshold, nFID,
                                   fail = "insert", fail = "delete",
                                   fail = "reinsert", fail = "close",
                                   visited)
           IN  /\ r.tbl.nextOID <= MaxOID + 1
               /\ m_oMapOGRFIDToFGDBFID' = r.o2f
               /\ m_oMapFGDBFIDToOGRFID' = r.f2o
               /\ table' = r.tbl
               /\ lastCall' = [op |-> "create", fid |-> nFID, ret |-> r.ret,
                               out |-> r.fid, mapped |-> FALSE,
                               resync |-> r.resync]
        /\ UNCHANGED resyncVars

DeleteFeatureCall ==
    \E nFID \in FIDInputs \cup {GIntBig(0, k) : k \in 1 .. MaxOID},
       fail \in {"none", "getrow", "delete"} :
        /\ LET r == DeleteFeature(m_oMapOGRFIDToFGDBFID,
                                  m_oMapFGDBFIDToOGRFID, table, nFID,
                                  fail = "getrow", fail = "delete")
           IN  /\ m_oMapOGRFIDToFGDBFID' = r.o2f
               /\ m_oMapFGDBFIDToOGRFID' = r.f2o
               /\ table' = r.tbl
               /\ lastCall' = [op |-> "delete", fid |-> nFID, ret |-> r.ret,
                               out |-> -1,
                               mapped |-> CPL_INT64_FITS_ON_INT32(nFID)
                                   /\ CastInt(nFID) \in DOMAIN m_oMapOGRFIDToFGDBFID,
                               resync |-> "none"]
        /\ UNCHANGED resyncVars

\* OGRErr FGdbLayer::SetAttributeFilter(const char*): the IDs are resynced
\* when the query names the FID column (bFIDInQuery)
SetAttributeFilter ==
    \E bFIDInQuery, failClose \in BOOLEAN :
    \E visited \in VisitedRows(table, m_oMapFGDBFIDToOGRFID,
                                bFIDInQuery /\ failClose) :
        LET st == [o2f |-> m_oMapOGRFIDToFGDBFID,
                   f2o |-> m_oMapFGDBFIDToOGRFID, tbl |-> table,
                   resync |-> "none"]
            r == IF bFIDInQuery THEN ResyncIDs(st, failClose, visited)
                 ELSE st
        IN  /\ m_oMapOGRFIDToFGDBFID' = r.o2f
            /\ m_oMapFGDBFIDToOGRFID' = r.f2o
            /\ table' = r.tbl
            /\ lastCall' = [op |-> "filter", fid |-> GIntBig(0, -1),
                            ret |-> OGRERR_NONE, out |-> -1,
                            mapped |-> FALSE, resync |-> r.resync]
            /\ UNCHANGED resyncVars

Next == CreateFeature \/ DeleteFeatureCall \/ SetAttributeFilter

Spec == Init /\ [][Next]_vars

(***************************************************************************)
(* SpecTablX: EditGDBTablX on well-formed row-offset tables                *)
(***************************************************************************)
\* The offset record stored for row r of an input table (any non-zero value)
RecOf(r) == r

\* A well-formed row-offset table holding the rows of `present`, its maximum
\* FID being nMaxFID. sparse: the empty blocks are omitted and the trailer
\* has a bitmap; otherwise every block is in the file and there is none.
MakeTablX(present, nMaxFID, nRecordSize, sparse) ==
    LET nTotal == (nMaxFID + (BlockRows - 1)) \div BlockRows
        nonEmpty == {(r - 1) \div BlockRows : r \in present}
        stored == IF sparse THEN nonEmpty ELSE 0 .. (nTotal - 1)
        nth(k) == CHOOSE b \in stored :
                      Cardinality({c \in stored : c < b}) = k - 1
        page(b) == [slot \in {(r - 1) % BlockRows :
                                r \in {q \in present :
                                           (q - 1) \div BlockRows = b}}
                    |-> RecOf(b * BlockRows + slot + 1)]
        nBytes == ((BIT_ARRAY_SIZE_IN_BYTES(nTotal) + 127) \div 128) * 128
    IN  [exists |-> TRUE,
         n1024Blocks |-> Cardinality(stored), nMaxFID |-> nMaxFID,
         nRecordSize |-> nRecordSize,
         blocks |-> [k \in 1 .. Cardinality(stored) |-> page(nth(k))],
         hasTrailer |-> TRUE,
         nBitmapInt32Words |-> IF sparse THEN nBytes \div 4 ELSE 0,
         n1024BlocksTotal |-> nTotal,
         nNonEmptyPages |-> Cardinality(stored),
         blockMap |-> IF sparse THEN nonEmpty ELSE {},
         nBitmapBytes |-> IF sparse THEN nBytes ELSE 0]

\* FGDB->OGR map of an OGR->FGDB map
Inverse(o2f) ==
    [n \in {o2f[e] : e \in DOMAIN o2f} |-> CHOOSE e \in DOMAIN o2f : o2f[e] = n]

\* The remap tables ICreateFeature can have built over a table with the rows
\* of `present`: one-to-one, every internal FID a row of the table, no
\* external FID an un-relocated row of the table
RemapTables(present, externals, maxPairs) ==
    {o2f \in UNION {[E -> present] : E \in SUBSET externals} :
        /\ DOMAIN o2f # {}
        /\ Cardinality(DOMAIN o2f) <= maxPairs
        /\ \A e1, e2 \in DOMAIN o2f : o2f[e1] = o2f[e2] => e1 = e2
        /\ \A e \in DOMAIN o2f :
              /\ o2f[e] # e
              /\ e \in present => \E e2 \in DOMAIN o2f : o2f[e2] = e}

\* Bounds of the inputs of EditGDBTablX
SmallMaxFID == 4
MaxPairs == 2

\* Record sizes of the format
RecordSizes == {4, 5, 6}

\* Rows and external FIDs of the multi-block inputs: around block limits
BigRows == {1, 1024, 1025, 2049}
BigExternals == {2, 1026, 2200}
BigMaxFIDs == {1024, 1025, 2049}

\* The layer state and the files other than .gdbtablx play no part
InitTablXWith(present, nMaxFID, nRecordSize, sparse, o2f, bDisable) ==
    /\ m_oMapOGRFIDToFGDBFID = o2f
    /\ m_oMapFGDBFIDToOGRFID = Inverse(o2f)
    /\ table = [rows |-> present, nextOID |-> nMaxFID + 1,
                 open |-> TRUE]
    /\ m_nResyncThreshold = ResyncThreshold
    /\ lastCall = [op |-> "none", fid |-> GIntBig(0, -1), ret |-> OGRERR_NONE,
                   out |-> -1, mapped |-> FALSE]
    /\ bDisableSparsePages = bDisable
    /\ fs = [gdbtablx |-> MakeTablX(present, nMaxFID, nRecordSize, sparse),
             new |-> Absent, tmp |-> Absent, index |-> <<>>]
    /\ orig = fs
    /\ tx = [pc |-> "start"]
    /\ ax = <<>>
    /\ hk = [pc |-> "idle"]

InitTablXSmall ==
    \E present \in SUBSET (1 .. SmallMaxFID) \ {{}},
       nRecordSize \in RecordSizes, sparse, bDisable \in BOOLEAN :
        \E nMaxFID \in {SetMax(present), SmallMaxFID},
           o2f \in RemapTables(present, 1 .. (SmallMaxFID + 2), MaxPairs) :
            InitTablXWith(present, nMaxFID, nRecordSize, sparse, o2f, bDisable)

InitTablXBig ==
    \E present \in SUBSET BigRows \ {{}},
       mode \in {<<TRUE, FALSE>>, <<FALSE, FALSE>>, <<TRUE, TRUE>>} :
        \E nMaxFID \in {m \in BigMaxFIDs : m >= SetMax(present)},
           o2f \in RemapTables(present, BigExternals, 1) :
            InitTablXWith(present, nMaxFID, 4 + (nMaxFID % 3), mode[1], o2f,
                          mode[2])

\* Rows 1..4 that may be present beside row 1000001 in the trailing-
\* compaction scenario: external 5 aliases internal 1000001, nothing is
\* stored at 5..1000000, the table has a block bitmap
ScenarioInternal == 1000001
ScenarioExternal == 5

InitTablXScenario ==
    \E low \in SUBSET {1, 4} :
        InitTablXWith(low \cup {ScenarioInternal}, ScenarioInternal, 4, TRUE,
                      [e \in {ScenarioExternal} |-> ScenarioInternal], FALSE)

InitTablX == InitTablXSmall \/ InitTablXBig \/ InitTablXScenario

\* The files of EditIndexesForFIDHack: the row-offset table, the table
\* EditGDBTablX writes, and the name the old table is moved to
osGDBTablX == "gdbtablx"

\* EditGDBTablX given the path of the table itself as its output
osNewGDBTablXInPlace == "gdbtablx"

osNewGDBTablX == "new"

osGDBTablXTmp == "tmp"

\* Lines 620-717: open both files, read the input header and trailer, write
\* the output header. fail: which of the calls that can make the function
\* return FALSE here does fail.
TablXBegin ==
    /\ tx.pc = "start"
    /\ \E fail \in {"none", "open", "create", "alloc"} :
        IF fail \in {"open", "create"}
        THEN /\ tx' = [pc |-> "done", bRet |-> FALSE, bIOError |-> TRUE]
             /\ fs' = fs
        ELSE \E ub \in IF DOMAIN m_oMapOGRFIDToFGDBFID = {}
                        THEN BeginOfEmptyMap ELSE {BeginDefined} :
             LET s == TablXLocals(fs[osGDBTablX], m_oMapOGRFIDToFGDBFID,
                                  m_oMapFGDBFIDToOGRFID, ub)
             IN  /\ fs' = [fs EXCEPT ![osNewGDBTablX] =
                                        TablXNewHeader(fs[osGDBTablX], s)]
                 /\ tx' = IF fail = "alloc"
                          THEN [pc |-> "done", bRet |-> FALSE,
                                bIOError |-> FALSE]
                          ELSE IF ub.crash
                          THEN [pc |-> "crashed", bRet |-> FALSE,
                                bIOError |-> FALSE]
                          ELSE s
    /\ UNCHANGED <<layerVars, bDisableSparsePages, orig, ax, hk>>

\* One iteration of the row loop; failReads: whether the read of the
\* record may fail
TablXRowWith(failReads) ==
    /\ tx.pc = "loop"
    /\ ~tx.broke
    /\ tx.iUnsigned <= tx.nOutMaxFID
    /\ \E failWrite \in BOOLEAN, failRead \in failReads :
        LET r == TablXLoopBody(tx, fs[osGDBTablX], fs[osNewGDBTablX],
                               m_oMapOGRFIDToFGDBFID, m_oMapFGDBFIDToOGRFID,
                               bDisableSparsePages, failWrite, failRead)
        IN  /\ tx' = r.tx
            /\ fs' = [fs EXCEPT ![osNewGDBTablX] = r.new]
    /\ UNCHANGED <<layerVars, bDisableSparsePages, orig, ax, hk>>

\* The row loop on an input file every record of which can be read
TablXRow == TablXRowWith({FALSE})

\* The row loop on an input file the reads of which may fail
TablXRowIO == TablXRowWith(BOOLEAN)

TablXEnd ==
    /\ tx.pc = "loop"
    /\ tx.broke \/ tx.iUnsigned > tx.nOutMaxFID
    /\ \E failPage, failTrailer \in BOOLEAN :
        LET r == TablXEpilogue(tx, fs[osNewGDBTablX], bDisableSparsePages,
                               failPage, failTrailer)
        IN  /\ tx' = r.tx
            /\ fs' = [fs EXCEPT ![osNewGDBTablX] = r.new]
    /\ UNCHANGED <<layerVars, bDisableSparsePages, orig, ax, hk>>

NextTablX == TablXBegin \/ TablXRow \/ TablXEnd

SpecTablX == InitTablX /\ [][NextTablX]_vars

\* The plain rewrite: once EditGDBTablX has succeeded, the same table is
\* rewritten row by row, with no skipping, into a second file. tx.skips
\* goes on telling which optimizations EditGDBTablX took.
osPlainGDBTablX == "tmp"

PlainBegin ==
    /\ tx.pc = "done"
    /\ tx.bRet
    /\ LET s == TablXLocals(fs[osGDBTablX], m_oMapOGRFIDToFGDBFID,
                            m_oMapFGDBFIDToOGRFID, tx.ub)
       IN  /\ tx' = [s EXCEPT !.pc = "plain", !.skips = tx.skips]
           /\ fs' = [fs EXCEPT ![osPlainGDBTablX] =
                                  TablXNewHeader(fs[osGDBTablX], s)]
    /\ UNCHANGED <<layerVars, bDisableSparsePages, orig, ax, hk>>

PlainRow ==
    /\ tx.pc = "plain"
    /\ ~tx.broke
    /\ tx.iUnsigned <= tx.nOutMaxFID
    /\ LET r == PlainLoopBody(tx, fs[osGDBTablX], fs[osPlainGDBTablX],
                              m_oMapOGRFIDToFGDBFID, m_oMapFGDBFIDToOGRFID,
                              bDisableSparsePages)
       IN  /\ tx' = r.tx
           /\ fs' = [fs EXCEPT ![osPlainGDBTablX] = r.new]
    /\ UNCHANGED <<layerVars, bDisableSparsePages, orig, ax, hk>>

PlainEnd ==
    /\ tx.pc = "plain"
    /\ tx.broke \/ tx.iUnsigned > tx.nOutMaxFID
    /\ LET r == TablXEpilogue(tx, fs[osPlainGDBTablX], bDisableSparsePages,
                              FALSE, FALSE)
       IN  /\ tx' = [r.tx EXCEPT !.pc = "plainDone"]
           /\ fs' = [fs EXCEPT ![osPlainGDBTablX] = r.new]
    /\ UNCHANGED <<layerVars, bDisableSparsePages, orig, ax, hk>>

NextTablXPlain ==
    \/ TablXBegin
    \/ TablXRow
    \/ TablXEnd
    \/ PlainBegin
    \/ PlainRow
    \/ PlainEnd

\* EditGDBTablX, then the plain rewrite, on tables of several blocks
SpecTablXPlain == InitTablXBig /\ [][NextTablXPlain]_vars

\* EditGDBTablX on small tables whose records may fail to be read
NextTablXIO == TablXBegin \/ TablXRowIO \/ TablXEnd

SpecTablXIO == InitTablXSmall /\ [][NextTablXIO]_vars

\* Bounds of the tables rewritten with no pending remap
NoRemapMaxFID == 3

\* EditGDBTablX called with both maps empty, on small tables and on tables
\* of several blocks, with and without a block bitmap
InitTablXNoRemap ==
    \E big \in BOOLEAN, sparse, bDisable \in BOOLEAN :
      \E present \in SUBSET (IF big THEN BigRows ELSE 1 .. NoRemapMaxFID)
                        \ {{}} :
        \E nMaxFID \in IF big THEN {m \in BigMaxFIDs : m >= SetMax(present)}
                        ELSE SetMax(present) .. NoRemapMaxFID :
            InitTablXWith(present, nMaxFID, 4 + (nMaxFID % 3), sparse,
                          EmptyMap, bDisable)

SpecTablXNoRemap == InitTablXNoRemap /\ [][NextTablX]_vars

\* EditGDBTablX on the tables of the trailing-compaction scenario alone
SpecTablXScenario == InitTablXScenario /\ [][NextTablX]_vars

(***************************************************************************)
(* SpecATX: EditATXOrSPX on well-formed index files                        *)
(***************************************************************************)
RECURSIVE SetToSortedSeq(_)
SetToSortedSeq(S) ==
    IF S = {} THEN <<>>
    ELSE <<SetMin(S)>> \o SetToSortedSeq(S \ {SetMin(S)})

\* Bounds of the index files
MaxIdxFID == 3
MaxIdxPairs == 2
MaxFailAt == 6

\* Indexed values of the entries, in their order in the index
IdxValues == {1, 2}

\* The leaf entries of an index over the rows of DOMAIN valOf, valOf[r]
\* being the indexed value of row r: by value, then by FID
IndexEntries(valOf) ==
    LET run(v) == SetToSortedSeq({r \in DOMAIN valOf : valOf[r] = v})
        e(v) == [k \in 1 .. Len(run(v)) |-> [fid |-> run(v)[k], val |-> v]]
    IN  e(1) \o e(2)

\* The leaf pages of these entries, a page ending after each entry of
\* `cuts` (and an empty page following the last one if emptyLast), the
\* first leaf being page nFirstPage, each leaf pointing to the next one
LeafPages(entries, cuts, emptyLast, nFirstPage) ==
    LET ends == SetToSortedSeq(cuts \cup {Len(entries)})
        nLeaves == Len(ends) + (IF emptyLast THEN 1 ELSE 0)
        from(k) == IF k = 1 THEN 1 ELSE ends[k - 1] + 1
        seg(k) == IF k > Len(ends) THEN <<>>
                  ELSE SubSeq(entries, from(k), ends[k])
    IN  [k \in 1 .. nLeaves |->
            [w0 |-> IF k = nLeaves THEN 0 ELSE nFirstPage + k,
             w1 |-> Len(seg(k)),
             w2 |-> 0,
             ids |-> [n \in 1 .. Len(seg(k)) |-> seg(k)[n].fid],
             vals |-> [n \in 1 .. Len(seg(k)) |-> seg(k)[n].val]]]

\* An index file of depth 1 (page 1 is the only leaf) or 2 (page 1 lists
\* the leaves, which are pages 2, 3, ...)
MakeIndex(entries, cuts, emptyLast, nDepth, nSizeIndexedValue) ==
    LET leaves == LeafPages(entries, cuts, emptyLast,
                            IF nDepth = 1 THEN 1 ELSE 2)
        root == [w0 |-> 0, w1 |-> Len(leaves) - 1, w2 |-> 2,
                 ids |-> [k \in 1 .. (Len(leaves) - 1) |-> k + 2],
                 vals |-> <<>>]
        pages == IF nDepth = 1 THEN leaves ELSE <<root>> \o leaves
    IN  [exists |-> TRUE, nPos |-> Len(pages) * PageSize + TrailerSize,
         nSizeIndexedValue |-> nSizeIndexedValue, nDepth |-> nDepth,
         pages |-> pages]

\* The FGDB->OGR maps ICreateFeature can have built over a table with the
\* rows of `present`
InverseRemapTables(present, externals, maxPairs) ==
    {Inverse(o2f) : o2f \in RemapTables(present, externals, maxPairs)}

\* Lines 279-283: the files the checks of the trailer tell apart: a
\* well-formed one, an empty one, one of the 22 bytes of a trailer and no
\* page, and one whose trailer gives 0 as the size of the indexed values
TrailerKinds == {"ok", "empty", "trailerOnly", "zeroSize"}

WithTrailer(file, kind) ==
    IF kind = "empty" THEN [file EXCEPT !.nPos = 0, !.pages = <<>>]
    ELSE IF kind = "trailerOnly"
    THEN [file EXCEPT !.nPos = TrailerSize, !.pages = <<>>]
    ELSE IF kind = "zeroSize" THEN [file EXCEPT !.nSizeIndexedValue = 0]
    ELSE file

InitATX ==
    \E valOf \in UNION {[R -> IdxValues] : R \in SUBSET (1 .. MaxIdxFID) \ {{}}} :
      \E cuts \in SUBSET (1 .. (Cardinality(DOMAIN valOf) - 1)),
         emptyLast \in BOOLEAN, nDepth \in {1, 2}, kind \in TrailerKinds,
         f2o \in InverseRemapTables(DOMAIN valOf, 1 .. (MaxIdxFID + 1),
                                    MaxIdxPairs) :
        /\ nDepth = 1 => (cuts = {} /\ ~emptyLast)
        /\ m_oMapFGDBFIDToOGRFID = f2o
        /\ m_oMapOGRFIDToFGDBFID = Inverse(f2o)
        /\ table = [rows |-> DOMAIN valOf, nextOID |-> MaxIdxFID + 1,
                 open |-> TRUE]
        /\ m_nResyncThreshold = ResyncThreshold
        /\ lastCall = [op |-> "none", fid |-> GIntBig(0, -1),
                       ret |-> OGRERR_NONE, out |-> -1, mapped |-> FALSE]
        /\ bDisableSparsePages = FALSE
        /\ fs = [gdbtablx |-> Absent, new |-> Absent, tmp |-> Absent,
                 index |-> <<WithTrailer(MakeIndex(IndexEntries(valOf), cuts,
                                                   emptyLast, nDepth, 4),
                                         kind)>>]
        /\ orig = fs
        /\ tx = [pc |-> "idle"]
        /\ ax = <<>>
        /\ hk = [pc |-> "idle"]

\* What a call of EditATXOrSPX did: r is its outcome on the file `before`
\* with the map f2o; failOpen and failAt as given to it
ATXCall(r, before, f2o, failOpen, failAt) ==
    [bRet |-> r.bRet, written |-> r.written, resorted |-> r.resorted,
     bInvalidateIndex |-> r.bInvalidateIndex, before |-> before,
     f2o |-> f2o, failOpen |-> failOpen,
     failedIO |-> IF failAt # 0 /\ r.nIO >= failAt THEN failAt ELSE 0]

\* The call of EditATXOrSPX on the k-th index file with the map f2o had
\* the outcome r
IndexEdited(k, r, f2o, failOpen, failAt) ==
    /\ fs' = [fs EXCEPT !.index[k] = r.file]
    /\ m_oMapFGDBFIDToOGRFID' = r.f2o
    /\ ax' = Append(ax, ATXCall(r, fs.index[k], f2o, failOpen, failAt))

\* EditATXOrSPX on the index file, with the remap table of the layer
ATXRepair ==
    /\ ax = <<>>
    /\ \E failOpen \in BOOLEAN, failAt \in 0 .. MaxFailAt :
        /\ failOpen => failAt = 0
        /\ IndexEdited(1, EditATXOrSPX(fs.index[1], m_oMapFGDBFIDToOGRFID,
                                       failOpen, failAt),
                       m_oMapFGDBFIDToOGRFID, failOpen, failAt)
    /\ UNCHANGED <<m_oMapOGRFIDToFGDBFID, table, m_nResyncThreshold, lastCall,
                   bDisableSparsePages, orig, tx, hk>>

\* EditATXOrSPX once more on a file it repaired, by a layer that has no
\* pending remap
ATXRepairAgain ==
    /\ Len(ax) = 1
    /\ ax[1].bRet
    /\ \E failOpen \in BOOLEAN, failAt \in 0 .. MaxFailAt :
        /\ failOpen => failAt = 0
        /\ IndexEdited(1, EditATXOrSPX(fs.index[1], EmptyMap, failOpen,
                                       failAt),
                       EmptyMap, failOpen, failAt)
        /\ m_oMapOGRFIDToFGDBFID' = EmptyMap
    /\ UNCHANGED <<table, m_nResyncThreshold, lastCall, bDisableSparsePages, orig, tx, hk>>

NextATX == ATXRepair \/ ATXRepairAgain

SpecATX == InitATX /\ [][NextATX]_vars

(***************************************************************************)
(* SpecHack: EditIndexesForFIDHack, step by step                           *)
(*                                                                         *)
(* hk.pc: "tablx" while EditGDBTablX runs (line 217), "indexes" in the     *)
(* loop over the index files (lines 229-244), "rename2" between the two    *)
(* renames (line 248-249), "unlink" before line 250, "done" once returned. *)
(***************************************************************************)
\* An unlink that leaves the file in place
VSIUnlinkNothing(files, name) == files

\* int VSIUnlink(const char *pszFilename)
VSIUnlink(files, name) == [files EXCEPT ![name] = Absent]

\* int VSIRename(const char *oldpath, const char *newpath), succeeding
VSIRename(files, oldpath, newpath) ==
    [files EXCEPT ![newpath] = files[oldpath], ![oldpath] = Absent]

\* Bounds of the tables and index files of a resync
HackMaxFID == 2
MaxIndexes == 2

\* The nIndexes .atx/.spx files of a table with the rows of DOMAIN valOf,
\* by turns a single leaf and a tree whose leaves hold one entry each
HackIndexes(valOf, nIndexes, treeFirst) ==
    LET entries == IndexEntries(valOf)
        leaf == MakeIndex(entries, {}, FALSE, 1, 4)
        tree == MakeIndex(entries, 1 .. (Len(entries) - 1), FALSE, 2, 4)
    IN  [k \in 1 .. nIndexes |->
            IF (k % 2 = 1) = treeFirst THEN tree ELSE leaf]

InitHack ==
    \E present \in SUBSET (1 .. HackMaxFID) \ {{}}, sparse \in BOOLEAN,
       nIndexes \in 0 .. MaxIndexes, treeFirst \in BOOLEAN :
      \E valOf \in [present -> IdxValues],
         o2f \in RemapTables(present, 1 .. (HackMaxFID + 1), MaxIdxPairs) :
        /\ nIndexes = 0 => ~treeFirst
        /\ m_oMapOGRFIDToFGDBFID = o2f
        /\ m_oMapFGDBFIDToOGRFID = Inverse(o2f)
        /\ table = [rows |-> present, nextOID |-> HackMaxFID + 1,
                 open |-> TRUE]
        /\ m_nResyncThreshold = ResyncThreshold
        /\ lastCall = [op |-> "none", fid |-> GIntBig(0, -1),
                       ret |-> OGRERR_NONE, out |-> -1, mapped |-> FALSE]
        /\ bDisableSparsePages = FALSE
        /\ fs = [gdbtablx |-> MakeTablX(present, SetMax(present), 4, sparse),
                 new |-> Absent, tmp |-> Absent,
                 index |-> HackIndexes(valOf, nIndexes, treeFirst)]
        /\ orig = fs
        /\ tx = [pc |-> "start"]
        /\ ax = <<>>
        /\ hk = [pc |-> "tablx", i |-> 0, bRet |-> FALSE, bRet2 |-> FALSE,
                 ret |-> FALSE, unlinked |-> {}]

\* Lines 217-228: EditGDBTablX has returned
HackAfterTablX ==
    /\ hk.pc = "tablx"
    /\ tx.pc = "done"
    /\ IF ~tx.bRet
       THEN /\ fs' = VSIUnlink(fs, osNewGDBTablX)
            /\ hk' = [hk EXCEPT !.pc = "done", !.ret = FALSE,
                                !.unlinked = IF fs[osNewGDBTablX].exists
                                             THEN {osNewGDBTablX} ELSE {}]
       ELSE /\ fs' = fs
            /\ hk' = [hk EXCEPT !.pc = "indexes", !.i = 1, !.bRet = TRUE]
    /\ UNCHANGED <<layerVars, bDisableSparsePages, orig, tx, ax>>

\* Lines 229-244: the next .atx or .spx file of the table is edited
HackEditIndex ==
    /\ hk.pc = "indexes"
    /\ hk.i <= Len(fs.index)
    /\ \E failOpen \in BOOLEAN, failAt \in 0 .. MaxFailAt :
        /\ failOpen => failAt = 0
        /\ IndexEdited(hk.i, EditATXOrSPX(fs.index[hk.i],
                                          m_oMapFGDBFIDToOGRFID, failOpen,
                                          failAt),
                       m_oMapFGDBFIDToOGRFID, failOpen, failAt)
        /\ hk' = [hk EXCEPT !.i = @ + 1,
                            !.bRet = IF ax'[Len(ax')].bRet THEN @ ELSE FALSE]
    /\ UNCHANGED <<m_oMapOGRFIDToFGDBFID, table, m_nResyncThreshold, lastCall,
                   bDisableSparsePages, orig, tx>>

\* Line 248: VSIRename(osGDBTablX, osGDBTablXTmp); when it fails the second
\* rename is not attempted
HackRenameToTmp ==
    /\ hk.pc = "indexes"
    /\ hk.i > Len(fs.index)
    /\ \E fail \in BOOLEAN :
        IF fail
        THEN /\ fs' = fs
             /\ hk' = [hk EXCEPT !.pc = "unlink", !.bRet2 = FALSE]
        ELSE /\ fs' = VSIRename(fs, osGDBTablX, osGDBTablXTmp)
             /\ hk' = [hk EXCEPT !.pc = "rename2"]
    /\ UNCHANGED <<layerVars, bDisableSparsePages, orig, tx, ax>>

\* Line 249: VSIRename(osNewGDBTablX, osGDBTablX)
HackRenameNew ==
    /\ hk.pc = "rename2"
    /\ \E fail \in BOOLEAN :
        IF fail
        THEN /\ fs' = fs
             /\ hk' = [hk EXCEPT !.pc = "unlink", !.bRet2 = FALSE]
        ELSE /\ fs' = VSIRename(fs, osNewGDBTablX, osGDBTablX)
             /\ hk' = [hk EXCEPT !.pc = "unlink", !.bRet2 = TRUE]
    /\ UNCHANGED <<layerVars, bDisableSparsePages, orig, tx, ax>>

\* Lines 250-258: the .tmp file is unlinked and the result returned
HackUnlinkTmp ==
    /\ hk.pc = "unlink"
    /\ fs' = VSIUnlink(fs, osGDBTablXTmp)
    /\ hk' = [hk EXCEPT !.pc = "done",
                        !.ret = IF hk.bRet2 THEN hk.bRet ELSE FALSE,
                        !.unlinked = IF fs[osGDBTablXTmp].exists
                                     THEN {osGDBTablXTmp} ELSE {}]
    /\ UNCHANGED <<layerVars, bDisableSparsePages, orig, tx, ax>>

NextHack ==
    \/ TablXBegin \/ TablXRow \/ TablXEnd
    \/ HackAfterTablX \/ HackEditIndex
    \/ HackRenameToTmp \/ HackRenameNew \/ HackUnlinkTmp

SpecHack == InitHack /\ [][NextHack]_vars

(***************************************************************************)
(* SpecHackCorrupt: EditIndexesForFIDHack when one index file of the table *)
(* is structurally corrupt                                                 *)
(***************************************************************************)
\* Line 357: the leaf feature count a page of this value size can hold
MaxPerPages(nSizeIndexedValue) == (PageSize - 12) \div (4 + nSizeIndexedValue)

\* Line 544: the sub-page count an interior page can hold
MaxSubPages == (PageSize - 8) \div 4

\* The kinds of structural corruption page p of the file can have
CorruptionKinds(file, p) ==
    IF file.nDepth = 1 \/ p > 1 THEN {"nFeatures"}
    ELSE {"nSubPages", "nSubPageID"}

\* The file with page p corrupted: a leaf feature count above the capacity,
\* a sub-page count above the capacity, or a first child page number of 0
CorruptIndex(file, p, kind) ==
    [file EXCEPT !.pages[p] =
        IF kind = "nFeatures"
        THEN [@ EXCEPT !.w1 = MaxPerPages(file.nSizeIndexedValue) + 1]
        ELSE IF kind = "nSubPages"
        THEN [@ EXCEPT !.w1 = MaxSubPages]
        ELSE [@ EXCEPT !.w2 = 0]]

\* The walk of the file stops on a structural error when it reads the page
StructurallyCorrupt(file) ==
    \E p \in 1 .. Len(file.pages) :
        IF file.nDepth = 1 \/ p > 1
        THEN file.pages[p].w1 > MaxPerPages(file.nSizeIndexedValue)
        ELSE \/ file.pages[p].w1 + 1 > MaxSubPages
             \/ file.pages[p].w2 < 1

InitHackCorrupt ==
    \E present \in SUBSET (1 .. HackMaxFID) \ {{}},
       nIndexes \in 1 .. MaxIndexes, treeFirst \in BOOLEAN :
      \E valOf \in [present -> IdxValues],
         o2f \in RemapTables(present, 1 .. (HackMaxFID + 1), MaxIdxPairs),
         k \in 1 .. nIndexes :
        LET index == HackIndexes(valOf, nIndexes, treeFirst) IN
        \E p \in 1 .. Len(index[k].pages) :
          \E kind \in CorruptionKinds(index[k], p) :
            /\ m_oMapOGRFIDToFGDBFID = o2f
            /\ m_oMapFGDBFIDToOGRFID = Inverse(o2f)
            /\ table = [rows |-> present, nextOID |-> HackMaxFID + 1,
                        open |-> TRUE]
            /\ m_nResyncThreshold = ResyncThreshold
            /\ lastCall = [op |-> "none", fid |-> GIntBig(0, -1),
                           ret |-> OGRERR_NONE, out |-> -1, mapped |-> FALSE]
            /\ bDisableSparsePages = FALSE
            /\ fs = [gdbtablx |-> MakeTablX(present, SetMax(present), 4, FALSE),
                     new |-> Absent, tmp |-> Absent,
                     index |-> [index EXCEPT
                                  ![k] = CorruptIndex(@, p, kind)]]
            /\ orig = fs
            /\ tx = [pc |-> "start"]
            /\ ax = <<>>
            /\ hk = [pc |-> "tablx", i |-> 0, bRet |-> FALSE, bRet2 |-> FALSE,
                     ret |-> FALSE, unlinked |-> {}]

SpecHackCorrupt == InitHackCorrupt /\ [][NextHack]_vars

(***************************************************************************)
(* Claims on the remap maps (checked under Spec)                           *)
(***************************************************************************)
O2F == m_oMapOGRFIDToFGDBFID

F2O == m_oMapFGDBFIDToOGRFID

\* C1: after any sequence of CreateFeature and DeleteFeature calls the two
\* maps are mutual inverses: (e -> n) is in the OGR->FGDB map iff (n -> e)
\* is in the FGDB->OGR map.
C1_MutualInverse ==
    /\ \A e \in DOMAIN O2F : O2F[e] \in DOMAIN F2O /\ F2O[O2F[e]] = e
    /\ \A n \in DOMAIN F2O : F2O[n] \in DOMAIN O2F /\ O2F[F2O[n]] = n

\* A feature with a remapped FID has been deleted while another pair stays
C1_Witness ==
    /\ lastCall.op = "delete"
    /\ lastCall.mapped
    /\ lastCall.ret = OGRERR_NONE
    /\ DOMAIN O2F # {}

(***************************************************************************)
(* Claims on EditGDBTablX (checked under SpecTablX)                        *)
(***************************************************************************)
TablXSucceeded == tx.pc = "done" /\ tx.bRet

InRow(i) == ReadRow(orig.gdbtablx, i)

OutRow(i) == ReadRow(fs.new, i)

\* C2: remap completeness. After a successful EditGDBTablX, output row e
\* holds the record of input row n for every pair (e, n); an output row
\* that is a relocated internal FID and no external key is empty; every
\* other output row up to the input maximum holds the record of the same
\* input row.
C2_RemapCompleteness ==
    TablXSucceeded =>
        /\ \A e \in DOMAIN O2F : OutRow(e) = InRow(O2F[e])
        /\ \A n \in DOMAIN F2O \ DOMAIN O2F : OutRow(n) = 0
        /\ \A i \in 1 .. orig.gdbtablx.nMaxFID :
              i \notin DOMAIN O2F \cup DOMAIN F2O => OutRow(i) = InRow(i)

\* A successful rewrite that moved a record across blocks, left its old row
\* empty and kept an un-relocated row
C2_Witness ==
    /\ TablXSucceeded
    /\ \E e \in DOMAIN O2F :
          /\ (e - 1) \div BlockRows # (O2F[e] - 1) \div BlockRows
          /\ OutRow(e) = RecOf(O2F[e])
          /\ O2F[e] \notin DOMAIN O2F
          /\ O2F[e] <= fs.new.nMaxFID
    /\ \E i \in 1 .. fs.new.nMaxFID :
          i \notin DOMAIN O2F \cup DOMAIN F2O /\ OutRow(i) = RecOf(i)

\* The record output row i is meant to hold
ExpectedRow(i) ==
    IF i \in DOMAIN O2F THEN InRow(O2F[i])
    ELSE IF i \in DOMAIN F2O THEN 0
    ELSE InRow(i)

BlockHasRecord(b) ==
    \E i \in (b * BlockRows + 1) .. (b * BlockRows + BlockRows) :
        i <= fs.new.nMaxFID /\ ExpectedRow(i) # 0

\* The blocks a reader of the file takes as present
PresentBlocks(file) ==
    IF file.nBitmapInt32Words # 0 THEN file.blockMap
    ELSE 0 .. (file.n1024BlocksTotal - 1)

\* C7: sparse bitmap consistency. After a successful EditGDBTablX a block
\* of the output is marked in the bitmap, and physically written, iff it
\* holds a non-zero record; with FILEGDB_DISABLE_SPARSE_PAGES every block
\* is written and marked.
C7_SparseBitmap ==
    TablXSucceeded =>
        /\ \A b \in 0 .. (fs.new.n1024BlocksTotal - 1) :
              /\ b \in tx.pabyBlockMapOut
                    <=> (bDisableSparsePages \/ BlockHasRecord(b))
              /\ b \in PresentBlocks(fs.new) <=> b \in tx.pabyBlockMapOut
        /\ tx.pabyBlockMapOut \subseteq 0 .. (fs.new.n1024BlocksTotal - 1)
        /\ Len(fs.new.blocks) = Cardinality(tx.pabyBlockMapOut)
        /\ ~bDisableSparsePages =>
              \A k \in 1 .. Len(fs.new.blocks) : fs.new.blocks[k] # EmptyPage

\* A sparse output with an omitted block between two written ones
C7_Witness ==
    /\ TablXSucceeded
    /\ ~bDisableSparsePages
    /\ fs.new.blockMap = {0, 2}
    /\ fs.new.n1024BlocksTotal = 3
    /\ Len(fs.new.blocks) = 2

InScenario ==
    /\ O2F = [e \in {ScenarioExternal} |-> ScenarioInternal]
    /\ orig.gdbtablx.nMaxFID = ScenarioInternal

\* C10: in the trailing-compaction scenario (remap {5 -> 1000001}, input
\* maxIdentifier 1000001, no row at 6..1000000) the output header has
\* maxIdentifier = 5 and output row 5 holds the record of input row 1000001.
C10_Original ==
    (TablXSucceeded /\ InScenario) =>
        /\ fs.new.nMaxFID = ScenarioExternal
        /\ OutRow(ScenarioExternal) = InRow(ScenarioInternal)

\* C10 (narrowed): in that scenario only the relocated row 1000001 is
\* dropped from the tail, so the output header has maxIdentifier = 1000000;
\* output row 5 holds the record of input row 1000001.
C10_TrailingCompaction ==
    (TablXSucceeded /\ InScenario) =>
        /\ fs.new.nMaxFID = ScenarioInternal - 1
        /\ OutRow(ScenarioExternal) = InRow(ScenarioInternal)
        /\ InRow(ScenarioInternal) # 0

C10_Witness ==
    /\ TablXSucceeded
    /\ InScenario
    /\ \A i \in (ScenarioExternal + 1) .. (ScenarioInternal - 1) : InRow(i) = 0
    /\ OutRow(ScenarioExternal) = RecOf(ScenarioInternal)

(***************************************************************************)
(* Claims on EditATXOrSPX (checked under SpecATX)                          *)
(***************************************************************************)
\* The pages an index file's walk visits as leaves, in the order of the walk
LeafOrder(file) ==
    IF file.nDepth = 1 THEN <<1>>
    ELSE LET root == file.pages[1]
         IN  [k \in 1 .. (root.w1 + 1) |->
                 IF k = 1 THEN root.w2 ELSE root.ids[k - 1]]

\* The leaf entries of the pages of `order` from the k-th on, in order
RECURSIVE EntriesFrom(_, _, _)
EntriesFrom(file, order, k) ==
    IF k > Len(order) THEN <<>>
    ELSE LET page == file.pages[order[k]]
         IN  [n \in 1 .. page.w1 |-> [fid |-> page.ids[n], val |-> page.vals[n]]]
             \o EntriesFrom(file, order, k + 1)

WalkedEntries(file) == EntriesFrom(file, LeafOrder(file), 1)

\* In every run of entries sharing a value the FIDs strictly ascend
RunsAscending(entries) ==
    \A n \in 1 .. (Len(entries) - 1) :
        entries[n].val = entries[n + 1].val
            => entries[n].fid < entries[n + 1].fid

\* C3: after EditATXOrSPX returned success, in every maximal run of leaf
\* entries sharing an indexed value the row identifiers are strictly
\* ascending in page-visitation order (runs inside a page, runs spanning
\* pages, runs ending at the end of the file).
C3_IndexSortInvariant ==
    (Len(ax) = 1 /\ ax[1].bRet /\ ax[1].failedIO = 0)
        => RunsAscending(WalkedEntries(fs.index[1]))

\* C6: when a page read or write fails during the walk of EditATXOrSPX,
\* the repair reports failure and the index file is removed.
C6_IOFailureRemovesIndex ==
    (Len(ax) = 1 /\ ax[1].failedIO > 2)
        => (~ax[1].bRet /\ ~fs.index[1].exists)

\* C9: EditATXOrSPX run again, with an empty remap table, on a file it
\* repaired with success writes no page, leaves the file as it was and does
\* not delete it.
C9_Idempotence ==
    Len(ax) = 2
        => /\ ax[2].written = {}
           /\ fs.index[1] = ax[2].before
           /\ fs.index[1].exists

\* The first repair rewrote pages and the second walk went through
C9_Witness ==
    /\ Len(ax) = 2
    /\ ax[1].written # {}
    /\ ax[2].bRet
    /\ ax[2].failedIO = 0

(***************************************************************************)
(* Claims on EditIndexesForFIDHack (checked under SpecHack)                *)
(***************************************************************************)
\* EditIndexesForFIDHack attempted the swap and a rename failed
RenameFailed == hk.pc = "done" /\ tx.pc = "done" /\ tx.bRet /\ ~hk.bRet2

\* The content of the original row-offset table is at the path `name`
OriginalAt(name) == fs[name].exists /\ fs[name] = orig[osGDBTablX]

\* C4: when a rename of the swap fails, EditIndexesForFIDHack reports
\* failure and deletes nothing: the original row-offset table is still on
\* disk, at its path or at the .tmp path; the .tmp file is deleted only
\* when both renames succeeded.
C4_FileSwap ==
    RenameFailed
        => /\ ~hk.ret
           /\ hk.unlinked = {}
           /\ OriginalAt(osGDBTablX) \/ OriginalAt(osGDBTablXTmp)

\* EditIndexesForFIDHack has not reached the rename-swap
BeforeSwap == hk.pc \in {"tablx", "indexes"}

\* C5 (as stated): at every step before the rename-swap each original
\* file, the row-offset table and every index file, holds its pre-resync
\* content.
C5_OriginalsUntouched ==
    BeforeSwap
        => /\ fs[osGDBTablX] = orig[osGDBTablX]
           /\ fs.index = orig.index

\* C5 (narrowed): at every step before the rename-swap the row-offset table
\* holds its pre-resync content, the .tmp path is untouched, and the index files
\* the loop has not reached yet hold their pre-resync content (those it
\* has reached are edited in place).
C5_TableUntouchedBeforeSwap ==
    BeforeSwap
        => /\ fs[osGDBTablX] = orig[osGDBTablX]
           /\ fs[osGDBTablXTmp] = orig[osGDBTablXTmp]
           /\ \A k \in 1 .. Len(orig.index) :
                 (hk.pc = "tablx" \/ k >= hk.i)
                     => fs.index[k] = orig.index[k]

\* An index file has been rewritten in place and the swap is still to come
C5_Witness ==
    /\ hk.pc = "indexes"
    /\ hk.i > 1
    /\ fs.index[1].exists
    /\ fs.index[1] # orig.index[1]
    /\ fs[osNewGDBTablX].exists

\* C8: when EditGDBTablX fails, EditIndexesForFIDHack reports failure, has
\* opened and modified no index file, has not renamed or replaced the
\* row-offset table, and has removed the partial .new file.
C8_TablXFailure ==
    (hk.pc = "done" /\ tx.pc = "done" /\ ~tx.bRet)
        => /\ ~hk.ret
           /\ ax = <<>>
           /\ fs.index = orig.index
           /\ fs[osGDBTablX] = orig[osGDBTablX]
           /\ ~fs[osGDBTablXTmp].exists
           /\ ~fs[osNewGDBTablX].exists

\* EditGDBTablX failed after it had created the .new file, the table has
\* index files, and EditIndexesForFIDHack has returned
C8_Witness ==
    /\ hk.pc = "done"
    /\ tx.pc = "done"
    /\ ~tx.bRet
    /\ hk.unlinked = {osNewGDBTablX}
    /\ Len(orig.index) > 0


(***************************************************************************)
(* The leaf walk of EditATXOrSPX on a long run of one indexed value        *)
(*                                                                         *)
(* The walk is taken up when it has visited the first n leaf pages of the  *)
(* run, pages 2 .. n + 1 of the file, each with one entry; the leaf pages  *)
(* that follow arrive one by one. Every entry of these pages names the     *)
(* same FID (RunFID), which is not remapped, so the sort never reads a     *)
(* page back and the pages of the file are left out of the state. ax is    *)
(* the walk: w, the result ret of the last page, and the number of pages   *)
(* of the run in hand (nRunPages) and of the longest run (nLongestRun).    *)
(***************************************************************************)
\* The walks start at most this many pages before the limit
RunSlack == 3

\* The FID of the pending pair, held by no page of the run
RunRemappedFID == 1

\* The FID the entries of the run name
RunFID == 2

\* The walk after the first n pages of the run: m_oMapFGDBFIDToOGRFID[nFID]
\* has left a zero entry for every FID read
WalkAfterRun(n) ==
    [pages |-> <<>>,
     f2o |-> [k \in {RunRemappedFID, RunFID} |->
                 IF k = RunRemappedFID THEN 3 ELSE 0],
     bIndexedValueIsValid |-> TRUE, abyLastIndexedValue |-> 1,
     nFirstIndexAtThisValue |-> 0,
     anPagesAtThisValue |-> [k \in 1 .. n |-> k + 1],
     bSortThisValue |-> FALSE, nLastPageVisited |-> n + 1,
     bInvalidateIndex |-> FALSE, nIO |-> 2 + n, failAt |-> 0,
     written |-> {}, resorted |-> {}]

InitRun ==
    \E n \in (MaxPagesAtThisValue - RunSlack) .. MaxPagesAtThisValue :
        /\ m_oMapFGDBFIDToOGRFID = [k \in {RunRemappedFID} |-> 3]
        /\ m_oMapOGRFIDToFGDBFID = Inverse(m_oMapFGDBFIDToOGRFID)
        /\ table = [rows |-> {RunRemappedFID}, nextOID |-> 2,
                 open |-> TRUE]
        /\ m_nResyncThreshold = ResyncThreshold
        /\ lastCall = [op |-> "none", fid |-> GIntBig(0, -1),
                       ret |-> OGRERR_NONE, out |-> -1, mapped |-> FALSE]
        /\ bDisableSparsePages = FALSE
        /\ fs = [gdbtablx |-> Absent, new |-> Absent, tmp |-> Absent,
                 index |-> <<[exists |-> TRUE, nPos |-> 0,
                              nSizeIndexedValue |-> 4, nDepth |-> 3,
                              pages |-> <<>>]>>]
        /\ orig = fs
        /\ tx = [pc |-> "idle"]
        /\ ax = [pc |-> "walk", w |-> WalkAfterRun(n), ret |-> TRUE,
                 bRet |-> TRUE, nRunPages |-> n, nLongestRun |-> n,
                 bLast |-> FALSE]
        /\ hk = [pc |-> "idle"]

\* The next leaf page of the chain, read into abyBuffer: its entries have
\* the values vals; bLast: it is the last leaf page
RunPageRead(nThisPage, vals, bLast) ==
    [nThisPage |-> nThisPage,
     nNextPageID |-> IF bLast THEN 0 ELSE nThisPage + 1,
     nFeatures |-> Len(vals),
     ids |-> [k \in 1 .. Len(vals) |-> RunFID],
     vals |-> vals, bRewritePage |-> FALSE]

\* The pages of the run in hand once a page with the values vals was read,
\* nRunPages pages of the run of value v having been read before
RunPagesWith(nRunPages, v, vals) ==
    IF vals[Len(vals)] # v THEN 1
    ELSE IF vals[1] = v THEN nRunPages + 1
    ELSE 1

\* The run the page extends, or the run it holds the end of
RunPagesReached(nRunPages, v, vals) ==
    IF vals[1] = v THEN nRunPages + 1 ELSE 1

\* Lines 339-534 for the next leaf page of the chain
RunLeafPage ==
    /\ ax.pc = "walk"
    /\ ax.ret
    /\ ~ax.bLast
    /\ ax.w.nLastPageVisited < MaxPagesAtThisValue + RunSlack
    /\ \E bSame, bTwo, bSecondSame, bLast \in BOOLEAN :
        LET v == ax.w.abyLastIndexedValue
            first == IF bSame THEN v ELSE 3 - v
            vals == IF bTwo
                    THEN <<first, IF bSecondSame THEN first ELSE 3 - first>>
                    ELSE <<first>>
            nThisPage == ax.w.nLastPageVisited + 1
            r == WriteLeafBack(
                     LeafEntries(IODone(ax.w),
                                 RunPageRead(nThisPage, vals, bLast), 0),
                     nThisPage)
            nReached == RunPagesReached(ax.nRunPages, v, vals)
        IN  /\ ~bTwo => bSecondSame
            /\ ax' = [ax EXCEPT
                        !.w = r.w, !.ret = r.ret, !.bLast = bLast,
                        !.nRunPages = RunPagesWith(ax.nRunPages, v, vals),
                        !.nLongestRun = MAX(@, nReached)]
    /\ UNCHANGED <<m_oMapOGRFIDToFGDBFID, m_oMapFGDBFIDToOGRFID, table, m_nResyncThreshold,
                   lastCall, bDisableSparsePages, fs, orig, tx, hk>>

\* Lines 301-312: the walk has returned; the file is closed, and unlinked
\* when found invalid
RunClose ==
    /\ ax.pc = "walk"
    /\ ~ax.ret \/ ax.bLast
    /\ LET r == EditedIndex(fs.index[1], [w |-> ax.w, ret |-> ax.ret])
       IN  /\ fs' = [fs EXCEPT !.index[1] = r.file]
           /\ m_oMapFGDBFIDToOGRFID' = r.f2o
           /\ ax' = [ax EXCEPT !.pc = "closed", !.bRet = r.bRet]
    /\ UNCHANGED <<m_oMapOGRFIDToFGDBFID, table, m_nResyncThreshold, lastCall,
                   bDisableSparsePages, orig, tx, hk>>

NextRun == RunLeafPage \/ RunClose

SpecRun == InitRun /\ [][NextRun]_vars

(***************************************************************************)
(* Claims on EditGDBTablX with no pending remap (SpecTablXNoRemap)         *)
(***************************************************************************)
\* Header, records, block count and bitmap of two row-offset tables are the
\* same; the bitmap is compared as the set of blocks a reader takes as
\* present, so neither its padding nor a bitmap with every bit set counts
SameTablX(a, b) ==
    /\ a.nMaxFID = b.nMaxFID
    /\ a.nRecordSize = b.nRecordSize
    /\ a.n1024Blocks = b.n1024Blocks
    /\ a.n1024BlocksTotal = b.n1024BlocksTotal
    /\ a.blocks = b.blocks
    /\ PresentBlocks(a) = PresentBlocks(b)

\* C11: round trip. With an empty remap table EditGDBTablX completes for
\* any input row-offset table, and when no I/O fails its output has the
\* header, records, block count and bitmap of the input.
C11_RoundTrip ==
    /\ O2F = EmptyMap => tx.pc # "crashed"
    /\ (O2F = EmptyMap /\ TablXSucceeded) => SameTablX(fs.new, orig.gdbtablx)

(***************************************************************************)
(* Claims on the run limit of EditATXOrSPX (SpecRun)                       *)
(***************************************************************************)
\* C12: run limit. When EditATXOrSPX has returned, the index was found
\* invalid (failure reported, file deleted) if some run of one value had
\* 100001 leaf pages or more, and it was not if every run had at most
\* 100000 leaf pages.
C12_RunLimit ==
    ax.pc = "closed" =>
        /\ ax.nLongestRun <= MaxPagesAtThisValue =>
              (~ax.w.bInvalidateIndex /\ fs.index[1].exists)
        /\ ax.nLongestRun >= MaxPagesAtThisValue + 1 =>
              (ax.w.bInvalidateIndex /\ ~ax.bRet /\ ~fs.index[1].exists)

C14_Original == Cardinality(DOMAIN O2F) <= m_nResyncThreshold

\* C14: resync threshold. With a threshold of at least 1, after any
\* sequence of calls the remap table holds at most as many pairs as the
\* threshold.
C14_ResyncThreshold ==
    m_nResyncThreshold >= 1 => Cardinality(DOMAIN O2F) <= m_nResyncThreshold

\* A CreateFeature with a caller-set FID found the table at the threshold,
\* resynced and went on to record a new pair
C14_Witness ==
    /\ m_nResyncThreshold = ResyncThreshold
    /\ lastCall.op = "create"
    /\ lastCall.resync = "done"
    /\ lastCall.ret = OGRERR_NONE
    /\ Cardinality(DOMAIN O2F) = 1

(***************************************************************************)
(* Further claims on EditATXOrSPX (SpecATX)                                *)
(***************************************************************************)
\* C15: the rewriters only read the remap table. After EditATXOrSPX was
\* called on an index file, whatever the file holds, both maps have the
\* entries they had before the call.
C15_RemapReadOnly ==
    Len(ax) = 1 =>
        /\ m_oMapFGDBFIDToOGRFID = ax[1].f2o
        /\ m_oMapOGRFIDToFGDBFID = Inverse(ax[1].f2o)

(***************************************************************************)
(* Claims on EditIndexesForFIDHack with a corrupt index (SpecHackCorrupt)  *)
(***************************************************************************)
\* The call of EditATXOrSPX on the k-th index met no I/O failure
NoIOFailure(k) == ~ax[k].failOpen /\ ax[k].failedIO = 0

\* C16: a structurally corrupt index (leaf feature count or sub-page count
\* above the capacity, child page number below 1) makes the repair of that
\* index fail and the index file is deleted; EditIndexesForFIDHack still
\* edits the other indexes, commits the table and returns failure.
C16_CorruptIndex ==
    (hk.pc = "done" /\ TablXSucceeded /\ hk.bRet2) =>
        /\ Len(ax) = Len(orig.index)
        /\ fs.gdbtablx.exists /\ ~fs.new.exists /\ ~fs.tmp.exists
        /\ \A k \in 1 .. Len(ax) :
              (StructurallyCorrupt(orig.index[k]) /\ NoIOFailure(k)) =>
                  /\ ~ax[k].bRet
                  /\ ~hk.ret
                  /\ ~fs.index[k].exists

(***************************************************************************)
(* Claims on EditGDBTablX with failing reads (SpecTablXIO)                 *)
(***************************************************************************)
\* C17: any I/O error during EditGDBTablX (a failed open, a failed read of
\* a record, a failed write of a block or of the trailer) makes it return
\* failure.
C17_IOErrorFails == (tx.pc = "done" /\ tx.bIOError) => ~tx.bRet

(***************************************************************************)
(* Further claims on the remap maps (Spec)                                 *)
(***************************************************************************)
\* The FIDs ICreateFeature refuses at lines 1110-1163: below -1 or 0, not
\* an int, a key of the OGR->FGDB map, or the OID of a row of the table
\* that is no key of the FGDB->OGR map
RejectedFID(nFID64, o2f, f2o, tbl) ==
    \/ I64Less(nFID64, -1)
    \/ I64Equal(nFID64, 0)
    \/ ~CPL_INT64_FITS_ON_INT32(nFID64)
    \/ CastInt(nFID64) > 0 /\ CastInt(nFID64) \in DOMAIN o2f
    \/ CastInt(nFID64) > 0 /\ CastInt(nFID64) \notin DOMAIN f2o
                           /\ GetRow(tbl, CastInt(nFID64)) = OGRERR_NONE

\* C18: after every call both maps are one-to-one and every identifier in
\* them, key or value, is an int of at least 1; and a CreateFeature whose
\* FID is below -1, 0, not an int, a key of the OGR->FGDB map or the OID of
\* an un-relocated row fails and leaves both maps as they were.
C18_RemapInvariant ==
    [][/\ \A m \in {O2F', F2O'} :
            /\ \A a, b \in DOMAIN m : m[a] = m[b] => a = b
            /\ \A a \in DOMAIN m : /\ 1 <= a /\ a <= INT_MAX
                                   /\ 1 <= m[a] /\ m[a] <= INT_MAX
       /\ (lastCall'.op = "create"
             /\ RejectedFID(lastCall'.fid, O2F, F2O, table)) =>
                /\ lastCall'.ret = OGRERR_FAILURE
                /\ UNCHANGED <<m_oMapOGRFIDToFGDBFID, m_oMapFGDBFIDToOGRFID>>
      ]_vars

(***************************************************************************)
(* Further claims on EditGDBTablX (SpecTablX)                              *)
(***************************************************************************)
\* The largest key of the OGR->FGDB map, 0 when there is none (lines
\* 645-647)
MaxExternal == IF DOMAIN O2F = {} THEN 0 ELSE SetMax(DOMAIN O2F)

\* The length of the longest run maxIn, maxIn - 1, ... of identifiers that
\* are all keys of the FGDB->OGR map and all above MaxExternal. The run is
\* not longer than the map.
TrailingRun(maxIn) ==
    SetMax({k \in 0 .. Cardinality(DOMAIN F2O) :
               \A j \in 0 .. (k - 1) : /\ (maxIn - j) \in DOMAIN F2O
                                       /\ (maxIn - j) > MaxExternal})

\* C19: the maximum identifier in the header of the output of EditGDBTablX
\* is max(input maximum, largest external identifier) less the length of
\* the trailing run of relocated input identifiers above the largest
\* external identifier; it is at least the largest external identifier and
\* at least every un-relocated input identifier (the largest of which is
\* among the Cardinality(F2O) + 1 identifiers below the input maximum).
C19_OutMaxFID ==
    (tx.pc \in {"loop", "done"} /\ fs[osNewGDBTablX].exists) =>
        LET maxIn == orig[osGDBTablX].nMaxFID
            out == fs[osNewGDBTablX].nMaxFID
        IN  /\ out = MAX(maxIn, MaxExternal) - TrailingRun(maxIn)
            /\ out >= MaxExternal
            /\ \A i \in (maxIn - Cardinality(DOMAIN F2O)) .. maxIn :
                   (i >= 1 /\ i \notin DOMAIN F2O) => out >= i

\* EditGDBTablX succeeded on a table whose last rows were relocated, with
\* an un-relocated row and another relocated row below them
C19_Witness ==
    /\ TablXSucceeded
    /\ TrailingRun(orig[osGDBTablX].nMaxFID) >= 1
    /\ \E j \in DOMAIN F2O : \E i \in {j + 1, j + 2} :
          /\ i <= fs[osNewGDBTablX].nMaxFID
          /\ i \notin DOMAIN F2O
          /\ InRow(i) # 0

C21_HeaderTrailerBody ==
    TablXSucceeded =>
        LET f == fs[osNewGDBTablX]
            omitted == Len(f.blocks) < f.n1024BlocksTotal
        IN  /\ f.hasTrailer
            /\ f.n1024Blocks = Len(f.blocks)
            /\ f.nNonEmptyPages = Len(f.blocks)
            /\ f.n1024BlocksTotal = (f.nMaxFID + (BlockRows - 1)) \div BlockRows
            /\ \A k \in 1 .. Len(f.blocks) :
                  DOMAIN f.blocks[k] \subseteq 0 .. (BlockRows - 1)
            /\ omitted <=> f.nBitmapInt32Words # 0
            /\ omitted <=> f.nBitmapBytes # 0
            /\ f.nBitmapBytes = 4 * f.nBitmapInt32Words
            /\ f.nBitmapBytes % 128 = 0
            /\ omitted => /\ Cardinality(f.blockMap) = Len(f.blocks)
                          /\ f.blockMap \subseteq 0 .. (f.n1024BlocksTotal - 1)
                          /\ 8 * f.nBitmapBytes >= f.n1024BlocksTotal

\* A successful rewrite whose output has three blocks, the middle one
\* omitted, and a bitmap of 128 bytes
C21_Witness ==
    /\ TablXSucceeded
    /\ fs[osNewGDBTablX].n1024BlocksTotal = 3
    /\ fs[osNewGDBTablX].n1024Blocks = 2
    /\ fs[osNewGDBTablX].nBitmapBytes = 128
    /\ 1 \notin fs[osNewGDBTablX].blockMap

(***************************************************************************)
(* Further claims on EditATXOrSPX (SpecATX)                                *)
(***************************************************************************)
\* The last call of EditATXOrSPX
LastATX == ax[Len(ax)]

\* The pages the walk of the file takes as leaves
LeafSet(file) == {LeafOrder(file)[k] : k \in 1 .. Len(LeafOrder(file))}

\* Line 372-373: the FID has a non-zero OGR FID in the map
Remapped(f2o, nFID) == nFID \in DOMAIN f2o /\ f2o[nFID] # 0

External(f2o, nFID) == IF Remapped(f2o, nFID) THEN f2o[nFID] ELSE nFID

\* The number of leaf entries of value v whose FID, taken through `to`, is x
CountInRun(entries, v, x, to(_)) ==
    Cardinality({n \in 1 .. Len(entries) :
                    entries[n].val = v /\ to(entries[n].fid) = x})

\* For every value, the FIDs stored in `after` are those of `before` with
\* each remapped FGDB FID replaced by its OGR FID, as many times each
RunsPreserved(before, after, f2o) ==
    LET ext(nFID) == External(f2o, nFID)
        same(nFID) == nFID
        vs == {before[n].val : n \in 1 .. Len(before)}
                  \cup {after[n].val : n \in 1 .. Len(after)}
        xs == {ext(before[n].fid) : n \in 1 .. Len(before)}
                  \cup {after[n].fid : n \in 1 .. Len(after)}
    IN  \A v \in vs, x \in xs :
            CountInRun(after, v, x, same) = CountInRun(before, v, x, ext)

\* C23: after EditATXOrSPX returned success, in every run of leaf entries
\* of one indexed value the multiset of the stored row identifiers is that
\* of the identifiers before the call with each relocated internal
\* identifier replaced by its external identifier: none is lost,
\* duplicated or moved to the run of another value, also in a run that
\* spans several pages.
C23_IdentifiersPreserved ==
    (Len(ax) >= 1 /\ LastATX.bRet)
        => RunsPreserved(WalkedEntries(LastATX.before),
                         WalkedEntries(fs.index[1]), LastATX.f2o)

\* C24: when the index file is 22 bytes long or shorter, when its trailer
\* gives 0 as the size of the indexed values, or when the read of the depth
\* fails, EditATXOrSPX returns failure, has written no page, and the file
\* is there as it was.
C24_MalformedUntouched ==
    (/\ Len(ax) = 1
     /\ ~ax[1].failOpen
     /\ \/ ax[1].before.nPos <= TrailerSize
        \/ ax[1].before.nSizeIndexedValue = 0
        \/ ax[1].failedIO = 2)
        => /\ ~ax[1].bRet
           /\ ax[1].written = {}
           /\ fs.index[1] = ax[1].before
           /\ fs.index[1].exists

\* EditATXOrSPX was called, with every I/O call succeeding, on a file whose
\* trailer gives size 0 and whose first leaf holds a remapped FID
C24_Witness ==
    /\ Len(ax) = 1
    /\ ~ax[1].failOpen
    /\ ax[1].failedIO = 0
    /\ ax[1].before.nSizeIndexedValue = 0
    /\ ax[1].before.nDepth = 1
    /\ \E n \in 1 .. ax[1].before.pages[1].w1 :
          Remapped(ax[1].f2o, ax[1].before.pages[1].ids[n])

(***************************************************************************)
(* The page walk of EditATXOrSPX call by call (SpecWalk)                   *)
(*                                                                         *)
(* ax is [pc, w, stack, ret, nCalls, leaves]: w is the state the calls     *)
(* share, and stack holds a frame [nThisPage, nDepth, abyBuffer,           *)
(* nSubPages, i] for each call of lines 327-565 on a page that references  *)
(* other pages which has not returned, the innermost last. A call on a     *)
(* leaf page returns within the step that makes it; leaves lists the pages *)
(* whose entries were gone through (lines 344-533), in order. The index    *)
(* file is any graph of pages.                                             *)
(***************************************************************************)
MaxWalkPage == 2
MaxWalkDepth == 3
MaxFrames == 5

\* The pages of a file of MaxWalkPage pages: as a leaf a page holds w1
\* entries of value 1; as a page that references others, its sub-pages are
\* w2 and ids
WalkPageSet ==
    {[w0 |-> 0, w1 |-> Len(ids), w2 |-> w2, ids |-> ids,
      vals |-> [k \in 1 .. Len(ids) |-> 1]] :
        w2 \in 0 .. MaxWalkPage,
        ids \in {<<>>} \cup {<<x>> : x \in 1 .. MaxWalkPage}}

\* Two rows that took each other's FID, or one row relocated
WalkMaps == {(1 :> 2) @@ (2 :> 1), (1 :> 3)}

InitWalk ==
    \E pages \in [1 .. MaxWalkPage -> WalkPageSet],
       nDepth \in -1 .. MaxWalkDepth, f2o \in WalkMaps :
        /\ m_oMapFGDBFIDToOGRFID = f2o
        /\ m_oMapOGRFIDToFGDBFID = Inverse(f2o)
        /\ table = [rows |-> DOMAIN f2o, nextOID |-> 4, open |-> TRUE]
        /\ m_nResyncThreshold = ResyncThreshold
        /\ lastCall = [op |-> "none", fid |-> GIntBig(0, -1),
                       ret |-> OGRERR_NONE, out |-> -1, mapped |-> FALSE]
        /\ bDisableSparsePages = FALSE
        /\ fs = [gdbtablx |-> Absent, new |-> Absent, tmp |-> Absent,
                 index |-> <<[exists |-> TRUE,
                              nPos |-> MaxWalkPage * PageSize + TrailerSize,
                              nSizeIndexedValue |-> 4, nDepth |-> nDepth,
                              pages |-> pages]>>]
        /\ orig = fs
        /\ tx = [pc |-> "idle"]
        /\ ax = [pc |-> "idle"]
        /\ hk = [pc |-> "idle"]

\* return FALSE: the calls in progress return FALSE in turn (lines 558-561)
WalkFailed(st, w) == [st EXCEPT !.pc = "done", !.w = w, !.stack = <<>>,
                                !.ret = FALSE]

\* return TRUE from the innermost call: the loop of its caller goes on
\* (line 546), or the walk is over
WalkReturned(st, w) ==
    IF st.stack = <<>> THEN [st EXCEPT !.pc = "done", !.w = w, !.ret = TRUE]
    ELSE [st EXCEPT !.w = w, !.stack[Len(st.stack)].i = @ + 1]

\* Lines 327-545: EditATXOrSPX is called on nThisPage with nDepth, up to
\* the loop over its sub-pages
WalkCall(st, nThisPage, nDepth, nSizeIndexedValue) ==
    IF nDepth = 1
    THEN LET r == EditLeafPage(st.w, nThisPage, nSizeIndexedValue)
             st1 == IF nThisPage = st.w.nLastPageVisited THEN st
                    ELSE [st EXCEPT !.leaves = Append(@, nThisPage)]
         IN  IF r.ret THEN WalkReturned(st1, r.w) ELSE WalkFailed(st1, r.w)
    ELSE IF IOFails(st.w) \/ ~PageInFile(st.w, nThisPage)
    THEN WalkFailed(st, IODone(st.w))
    ELSE
    LET abyBuffer == st.w.pages[nThisPage]
        nSubPages == abyBuffer.w1 + 1
    IN  IF nSubPages > (PageSize - 8) \div 4
        THEN WalkFailed(st, IODone(st.w))
        ELSE [st EXCEPT !.w = IODone(st.w),
                        !.stack = Append(@, [nThisPage |-> nThisPage,
                                             nDepth |-> nDepth,
                                             abyBuffer |-> abyBuffer,
                                             nSubPages |-> nSubPages,
                                             i |-> 0])]

\* Lines 296-300: the first call, on page 1 with the depth of the trailer
WalkBegin ==
    /\ ax.pc = "idle"
    /\ LET file == fs.index[1]
           w0 == [pages |-> file.pages, f2o |-> m_oMapFGDBFIDToOGRFID,
                  bIndexedValueIsValid |-> FALSE, abyLastIndexedValue |-> 0,
                  nFirstIndexAtThisValue |-> -1, anPagesAtThisValue |-> <<>>,
                  bSortThisValue |-> FALSE, nLastPageVisited |-> 0,
                  bInvalidateIndex |-> FALSE, nIO |-> 2, failAt |-> 0,
                  written |-> {}, resorted |-> {}]
       IN  ax' = WalkCall([pc |-> "walk", w |-> w0, stack |-> <<>>,
                           ret |-> TRUE, nCalls |-> 1, leaves |-> <<>>],
                          1, file.nDepth, file.nSizeIndexedValue)
    /\ UNCHANGED <<m_oMapOGRFIDToFGDBFID, m_oMapFGDBFIDToOGRFID, table, m_nResyncThreshold,
                   lastCall, bDisableSparsePages, fs, orig, tx, hk>>

\* Lines 546-563: one turn of the loop of the innermost call: its next
\* sub-page is walked with nDepth - 1, or it returns. The model stops at
\* MaxFrames calls in progress.
WalkStep ==
    /\ ax.pc = "walk"
    /\ Len(ax.stack) < MaxFrames
    /\ LET f == ax.stack[Len(ax.stack)]
           nSubPageID == IF f.i = 0 THEN f.abyBuffer.w2
                         ELSE IF f.i <= Len(f.abyBuffer.ids)
                         THEN f.abyBuffer.ids[f.i]
                         ELSE 0
       IN  ax' = IF f.i >= f.nSubPages
                 THEN WalkReturned([ax EXCEPT !.stack =
                                       SubSeq(@, 1, Len(@) - 1)], ax.w)
                 ELSE IF nSubPageID < 1 THEN WalkFailed(ax, ax.w)
                 ELSE WalkCall([ax EXCEPT !.nCalls = @ + 1], nSubPageID,
                               f.nDepth - 1, fs.index[1].nSizeIndexedValue)
    /\ UNCHANGED <<m_oMapOGRFIDToFGDBFID, m_oMapFGDBFIDToOGRFID, table, m_nResyncThreshold,
                   lastCall, bDisableSparsePages, fs, orig, tx, hk>>

NextWalk == WalkBegin \/ WalkStep

SpecWalk == InitWalk /\ [][NextWalk]_vars

\* The calls of EditATXOrSPX in progress: those on the stack, and within
\* the step of a leaf page one more
WalkDepthNow == IF ax.pc = "walk" THEN Len(ax.stack) ELSE 0

\* C25: the page walk of EditATXOrSPX ends for every index file: the number
\* of nested calls never exceeds the depth stored in the trailer (one call
\* at least being made), whatever that depth, 0 and negative values
\* included, and whatever pages the pages name as sub-pages, themselves
\* and their ancestors included.
C25_WalkDepthBounded ==
    LET nDepth == fs.index[1].nDepth
    IN  WalkDepthNow <= (IF nDepth < 1 THEN 1 ELSE nDepth)

(***************************************************************************)
(* The walk of an index file of depth 2 whose root names two leaves, each  *)
(* any number of times (SpecWalkShared)                                    *)
(***************************************************************************)
MaxRootSlots == 3

\* The sub-page lists of the root: pages 2 and 3, in any order
RootSlots == UNION {[1 .. n -> {2, 3}] : n \in 1 .. MaxRootSlots}

\* The FIDs a leaf holds, ascending
SharedLeafFIDs == {SetToSortedSeq(S) : S \in SUBSET (1 .. 3) \ {{}}}

InitWalkShared ==
    \E subs \in RootSlots, ids2 \in SharedLeafFIDs, ids3 \in SharedLeafFIDs,
       f2o \in WalkMaps :
        /\ m_oMapFGDBFIDToOGRFID = f2o
        /\ m_oMapOGRFIDToFGDBFID = Inverse(f2o)
        /\ table = [rows |-> 1 .. 3, nextOID |-> 4, open |-> TRUE]
        /\ m_nResyncThreshold = ResyncThreshold
        /\ lastCall = [op |-> "none", fid |-> GIntBig(0, -1),
                       ret |-> OGRERR_NONE, out |-> -1, mapped |-> FALSE]
        /\ bDisableSparsePages = FALSE
        /\ fs = [gdbtablx |-> Absent, new |-> Absent, tmp |-> Absent,
                 index |-> <<[exists |-> TRUE,
                              nPos |-> 3 * PageSize + TrailerSize,
                              nSizeIndexedValue |-> 4, nDepth |-> 2,
                              pages |->
                                <<[w0 |-> 0, w1 |-> Len(subs) - 1,
                                   w2 |-> subs[1],
                                   ids |-> [k \in 1 .. (Len(subs) - 1)
                                            |-> subs[k + 1]],
                                   vals |-> <<>>],
                                  [w0 |-> 3, w1 |-> Len(ids2), w2 |-> 0,
                                   ids |-> ids2,
                                   vals |-> [k \in 1 .. Len(ids2) |-> 1]],
                                  [w0 |-> 0, w1 |-> Len(ids3), w2 |-> 0,
                                   ids |-> ids3,
                                   vals |-> [k \in 1 .. Len(ids3) |-> 2]]>>]>>]
        /\ orig = fs
        /\ tx = [pc |-> "idle"]
        /\ ax = [pc |-> "idle"]
        /\ hk = [pc |-> "idle"]

SpecWalkShared == InitWalkShared /\ [][NextWalk]_vars

\* C26: in one pass of EditATXOrSPX the entries of a leaf page are gone
\* through, and so looked up in the map and rewritten, once at most,
\* however many times the pages that reference pages name the leaf: no
\* entry already rewritten to its external identifier is looked up again.
C26_LeafProcessedOnce ==
    ax.pc \in {"walk", "done"}
        => \A j, k \in 1 .. Len(ax.leaves) :
              ax.leaves[j] = ax.leaves[k] => j = k

(***************************************************************************)
(* GetFeature and ISetFeature beside the calls of Spec (SpecAccess)        *)
(***************************************************************************)
\* A GetFeature that does not look the FID up in the maps
GetFeatureDirect(o2f, f2o, tbl, oid, failGetRow) ==
    IF ~CPL_INT64_FITS_ON_INT32(oid) \/ ~tbl.open
    THEN [poFeature |-> "nullptr", row |-> -1]
    ELSE IF failGetRow \/ GetRow(tbl, CastInt(oid)) # OGRERR_NONE
    THEN [poFeature |-> "nullptr", row |-> -1]
    ELSE [poFeature |-> "feature", row |-> CastInt(oid)]

\* OGRFeature *FGdbLayer::GetFeature(GIntBig oid): the feature or nullptr,
\* and the row the feature was read from. failGetRow: GetRow or
\* OGRFeatureFromGdbRow fails.
GetFeature(o2f, f2o, tbl, oid, failGetRow) ==
    IF ~CPL_INT64_FITS_ON_INT32(oid) \/ ~tbl.open
    THEN [poFeature |-> "nullptr", row |-> -1]
    ELSE IF CastInt(oid) \notin DOMAIN o2f /\ CastInt(oid) \in DOMAIN f2o
    THEN [poFeature |-> "nullptr", row |-> -1]
    ELSE
    LET nFID32 == IF CastInt(oid) \in DOMAIN o2f THEN o2f[CastInt(oid)]
                  ELSE CastInt(oid)
    IN  IF failGetRow \/ GetRow(tbl, nFID32) # OGRERR_NONE
        THEN [poFeature |-> "nullptr", row |-> -1]
        ELSE [poFeature |-> "feature", row |-> nFID32]

\* OGRErr FGdbLayer::ISetFeature(OGRFeature*) for a feature of FID nFID64:
\* the value returned and the row updated. failGetRow, failUpdate: GetRow,
\* or PopulateRowWithFeature or Update, fails.
ISetFeature(o2f, f2o, tbl, nFID64, failGetRow, failUpdate) ==
    LET nFID == CastInt(nFID64) IN
    IF ~tbl.open THEN [ret |-> OGRERR_FAILURE, row |-> -1]
    ELSE IF I64Equal(nFID64, -1) THEN [ret |-> OGRERR_FAILURE, row |-> -1]
    ELSE IF ~CPL_INT64_FITS_ON_INT32(nFID64)
    THEN [ret |-> OGRERR_NON_EXISTING_FEATURE, row |-> -1]
    ELSE IF nFID \notin DOMAIN o2f /\ nFID \in DOMAIN f2o
    THEN [ret |-> OGRERR_NON_EXISTING_FEATURE, row |-> -1]
    ELSE
    LET nFID32 == IF nFID \in DOMAIN o2f THEN o2f[nFID] ELSE nFID IN
    IF failGetRow THEN [ret |-> OGRERR_FAILURE, row |-> -1]
    ELSE IF GetRow(tbl, nFID32) # OGRERR_NONE
    THEN [ret |-> GetRow(tbl, nFID32), row |-> -1]
    ELSE IF failUpdate THEN [ret |-> OGRERR_FAILURE, row |-> -1]
    ELSE [ret |-> OGRERR_NONE, row |-> nFID32]

GetFeatureCall ==
    \E oid \in FIDInputs \cup {GIntBig(0, k) : k \in 1 .. MaxOID},
       failGetRow \in BOOLEAN :
        /\ LET r == GetFeature(m_oMapOGRFIDToFGDBFID, m_oMapFGDBFIDToOGRFID,
                               table, oid, failGetRow)
           IN  lastCall' = [op |-> "get", fid |-> oid, ret |-> r.poFeature,
                            out |-> r.row, mapped |-> FALSE,
                            resync |-> "none"]
        /\ UNCHANGED <<m_oMapOGRFIDToFGDBFID, m_oMapFGDBFIDToOGRFID, table>>
        /\ UNCHANGED resyncVars

SetFeatureCall ==
    \E nFID \in FIDInputs \cup {GIntBig(0, k) : k \in 1 .. MaxOID},
       fail \in {"none", "getrow", "update"} :
        /\ LET r == ISetFeature(m_oMapOGRFIDToFGDBFID, m_oMapFGDBFIDToOGRFID,
                                table, nFID, fail = "getrow",
                                fail = "update")
           IN  lastCall' = [op |-> "set", fid |-> nFID, ret |-> r.ret,
                            out |-> r.row, mapped |-> FALSE,
                            resync |-> "none"]
        /\ UNCHANGED <<m_oMapOGRFIDToFGDBFID, m_oMapFGDBFIDToOGRFID, table>>
        /\ UNCHANGED resyncVars

NextAccess ==
    CreateFeature \/ DeleteFeatureCall \/ GetFeatureCall \/ SetFeatureCall

SpecAccess == Init /\ [][NextAccess]_vars

\* The call of the step went through
AccessDone == lastCall'.ret \in {OGRERR_NONE, "feature"}

\* The row the call of the step read, updated or deleted; 0 when none
AccessedRow ==
    IF lastCall'.op = "delete"
    THEN IF table'.rows = table.rows THEN 0
         ELSE CHOOSE r \in table.rows : r \notin table'.rows
    ELSE IF lastCall'.out > 0 THEN lastCall'.out ELSE 0

\* C27: a relocated row is reached through its external identifier only.
\* For every pair (e, n) of the remap table, GetFeature, SetFeature and
\* DeleteFeature called with e act on the row n and on no other; called
\* with n, when n is not itself an external key, they report a non-existing
\* feature and act on no row.
C27_ExternalOnly ==
    [][(/\ lastCall'.op \in {"get", "set", "delete"}
        /\ lastCall' # lastCall
        /\ CPL_INT64_FITS_ON_INT32(lastCall'.fid)
        /\ table.open)
       => LET nFID == CastInt(lastCall'.fid)
          IN  /\ nFID \in DOMAIN O2F
                    => /\ AccessedRow \in {0, O2F[nFID]}
                       /\ AccessDone => AccessedRow = O2F[nFID]
                       /\ AccessDone => O2F[nFID] \in table.rows
              /\ (nFID \notin DOMAIN O2F /\ nFID \in DOMAIN F2O)
                    => /\ ~AccessDone
                       /\ lastCall'.ret \in {OGRERR_NON_EXISTING_FEATURE,
                                             "nullptr"}
                       /\ AccessedRow = 0
                       /\ UNCHANGED <<m_oMapOGRFIDToFGDBFID,
                                      m_oMapFGDBFIDToOGRFID, table>>]_vars

\* GetFeature called with the external identifier of a relocated row, while
\* a row is stored at that identifier too, returned the relocated row
C27_Witness ==
    /\ lastCall.op = "get"
    /\ lastCall.ret = "feature"
    /\ CastInt(lastCall.fid) \in DOMAIN O2F
    /\ CastInt(lastCall.fid) \in table.rows
    /\ lastCall.out = O2F[CastInt(lastCall.fid)]
    /\ lastCall.out # CastInt(lastCall.fid)

\* Lines 3853-3858: the FID GetNextFeature gives the feature of a row
VisibleFID(f2o, r) == IF r \in DOMAIN f2o THEN f2o[r] ELSE r

\* No two rows of the table are seen with the same FID
VisibleFIDsDistinct(f2o, tbl) ==
    \A r1, r2 \in tbl.rows :
        VisibleFID(f2o, r1) = VisibleFID(f2o, r2) => r1 = r2

C29_DeleteKeepsPairOnFailure ==
    [][lastCall'.op = "delete"
       => /\ <<m_oMapOGRFIDToFGDBFID, m_oMapFGDBFIDToOGRFID>>'
                 # <<m_oMapOGRFIDToFGDBFID, m_oMapFGDBFIDToOGRFID>>
                => /\ lastCall'.ret = OGRERR_NONE
                   /\ table'.rows # table.rows
          /\ lastCall'.ret # OGRERR_NONE
                => UNCHANGED <<m_oMapOGRFIDToFGDBFID, m_oMapFGDBFIDToOGRFID>>]_vars

(***************************************************************************)
(* The byte offsets the rewriters pass to VSIFSeekL (SpecSeek)             *)
(*                                                                         *)
(* The offsets are expressions of type int. Their value is kept here as a  *)
(* GIntBig [hi, lo], which is also what VSIFSeekL takes (a 64-bit offset). *)
(* tx is [pc, expr, n, nRecordSize], then with the offset sought and the   *)
(* value of the expression.                                                *)
(***************************************************************************)
\* The highest power of two an int holds
MaxSeekBit == 30

\* Page numbers, block counts and row numbers: around every power of two
\* of the int range, and INT_MAX
SeekInputs ==
    {n \in {2 ^ j + d : j \in 0 .. MaxSeekBit, d \in {-1, 0, 1}} : n >= 1}
        \cup {INT_MAX}

\* a * b as a GIntBig, for 0 <= a <= INT_MAX and 0 <= b <= 8192, by the
\* 15-bit digits of a
Product(a, b) ==
    LET p0 == (a % 32768) * b
        p1 == ((a \div 32768) % 32768) * b
        p2 == (a \div 1073741824) * b
        q == p2 * 32768 + p1 + (p0 \div 32768)
        r0 == p0 % 32768
        top == q % 131072
    IN  IF top < 65536
        THEN GIntBig(q \div 131072, top * 32768 + r0)
        ELSE GIntBig((q \div 131072) + 1, (top - 131072) * 32768 + r0)

\* v + c as a GIntBig, for 0 <= c <= INT_MAX
PlusSmall(v, c) ==
    IF v.lo <= INT_MAX - c THEN GIntBig(v.hi, v.lo + c)
    ELSE GIntBig(v.hi + 1, ((v.lo - INT_MAX) - 1) + ((c - INT_MAX) - 1))

\* An int as the 64-bit offset VSIFSeekL receives
SignExtended(n) == GIntBig(IF n < 0 THEN -1 ELSE 0, n)

\* Line 337: (nThisPage - 1) * 4096
IndexPageOffset(nThisPage) == Product(nThisPage - 1, PageSize)

\* Line 678: 1024 * n1024Blocks * nRecordSize
TrailerOffset(n1024Blocks, nRecordSize) ==
    Product(n1024Blocks, BlockRows * nRecordSize)

\* Lines 828, 842: 16 + nRecordSize * iCorrectedRow, with the row counted
\* from 0
RecordOffset(nRecordSize, iCorrectedRow) ==
    PlusSmall(Product(iCorrectedRow, nRecordSize), 16)

\* The offsets a build can seek to for an int expression of value v. A
\* value that fits is what is sought. One that does not is a signed
\* overflow, which is undefined: the expression wraps to the 32 low bits,
\* or is computed in the 64 bits of the offset it is converted to.
SeekOutcomes(v) ==
    IF v.hi = 0 /\ v.lo >= 0 THEN {v} ELSE {SignExtended(v.lo), v}

InitSeek ==
    /\ m_oMapOGRFIDToFGDBFID = EmptyMap
    /\ m_oMapFGDBFIDToOGRFID = EmptyMap
    /\ table = [rows |-> {}, nextOID |-> 1, open |-> TRUE]
    /\ m_nResyncThreshold = ResyncThreshold
    /\ lastCall = [op |-> "none", fid |-> GIntBig(0, -1), ret |-> OGRERR_NONE,
                   out |-> -1, mapped |-> FALSE]
    /\ bDisableSparsePages = FALSE
    /\ fs = [gdbtablx |-> Absent, new |-> Absent, tmp |-> Absent,
             index |-> <<>>]
    /\ orig = fs
    /\ \E expr \in {"page", "trailer", "record"}, n \in SeekInputs,
          nRecordSize \in RecordSizes :
          /\ expr = "page" => nRecordSize = 4
          /\ expr = "trailer" => n <= ((INT_MAX \div BlockRows) + 1)
          /\ tx = [pc |-> "seek", expr |-> expr, n |-> n,
                   nRecordSize |-> nRecordSize]
    /\ ax = <<>>
    /\ hk = [pc |-> "idle"]

\* The VSIFSeekL of line 337 (page n), of line 678 (n blocks) or of lines
\* 828 and 842 (row n)
Seek ==
    /\ tx.pc = "seek"
    /\ LET v == IF tx.expr = "page" THEN IndexPageOffset(tx.n)
                ELSE IF tx.expr = "trailer"
                THEN TrailerOffset(tx.n, tx.nRecordSize)
                ELSE RecordOffset(tx.nRecordSize, tx.n - 1)
       IN  \E offset \in SeekOutcomes(v) :
              tx' = [pc |-> "sought", expr |-> tx.expr, n |-> tx.n,
                     nRecordSize |-> tx.nRecordSize, offset |-> offset,
                     value |-> v]
    /\ UNCHANGED <<m_oMapOGRFIDToFGDBFID, m_oMapFGDBFIDToOGRFID, table, m_nResyncThreshold,
                   lastCall, bDisableSparsePages, fs, orig, ax, hk>>

NextSeek == Seek

SpecSeek == InitSeek /\ [][NextSeek]_vars

\* C30: every byte offset the rewriters compute in int arithmetic, (page -
\* 1) * 4096 for a page of an index, 1024 * blocks * record size for the
\* trailer of the input and 16 + record size * row for an offset record,
\* is the value of the expression, with no wrap-around, for every page and
\* row of the int range and record sizes 4 to 6.
C30_OffsetsExact ==
    tx.pc = "sought"
        => /\ tx.offset = tx.value
           /\ tx.value.hi = 0
           /\ tx.value.lo >= 0

====
